---- MODULE Spec2Model ----
(***************************************************************************)
(* Planetary simulation (j-mye/planetSimulation): the fixed-step driver of *)
(* main(), Simulation, PhysicsEngine and Planet.                           *)
(*                                                                         *)
(* Numbers.  The program computes in float/double.  The model computes on  *)
(* an integer grid: every product is exact and every division truncates    *)
(* toward zero (Quot), which stands for the rounding of a float division.  *)
(* Time is counted in ticks of 0.25 ms, so 0.25 s = 1000 ticks and the     *)
(* program's timestep 0.0015 s = 6 ticks.  A product "x * dt" of the       *)
(* program is Quot(x * dt, TicksPerUnit) in the model.                     *)
(***************************************************************************)
EXTENDS Integers, Sequences, FiniteSets, TLC

VARIABLES
    variant,          \* which driver is running: "main" (src/src/main.cpp) or "part006"
    pc,               \* position of main()'s loop body / of the step under inspection
    frame,            \* number of loop iterations completed
    deltaTime,        \* main(): float deltaTime of the current frame, in ticks
    accumulator,      \* main(): static double accumulator, in ticks
    substeps,         \* main(): int substeps of the current frame
    isPaused,         \* GUI::isPaused
    restartTriggered, \* GUI::restartTriggered
    timeScale,        \* GUI::timeScale
    spaceKeyPressed,  \* main(): static bool spaceKeyPressed
    simDt,            \* Simulation::deltaTime, in ticks
    baseSimDt,        \* main(): const float baseSimDt (simDt in part_006) of the frame
    G,                \* PhysicsEngine::G
    softening,        \* PhysicsEngine::softening
    simG,             \* Simulation::G
    simSoftening,     \* Simulation::softening
    policy,           \* collision policy: "none", "bounce" or "merge"
    planets,          \* Simulation::planets : std::vector<Planet>
    bodies,           \* PhysicsEngine::bodies : std::vector<Planet*>, as indices into planets
    fi,               \* loop index i of the pair loop in progress (0-based in
                      \* computeForces, as in the code; 1-based in the collision pass)
    fj,               \* loop index j of the pair loop in progress
    toRemove,         \* handleCollisions: indices of the bodies absorbed in this pass
    input,            \* main(): the statics of the input block, GUI::visible and
                      \* Camera::followedPlanetIndex
    hist              \* observations of the run (history, not program state)

vars == << variant, pc, frame, deltaTime, accumulator, substeps, isPaused,
           restartTriggered, timeScale, spaceKeyPressed, simDt, baseSimDt, G,
           softening, simG, simSoftening, policy, planets, bodies, fi, fj,
           toRemove, input, hist >>

-----------------------------------------------------------------------------
(* Bounds of the model *)

\* loop iterations of main() that are explored
MaxFrames == 2
\* bodies created by a (re)initialisation in the driver (the program uses 12)
InitialBodies == 2
\* largest body count of the step specification
MaxBodies == 3
\* steps explored by the step specification
MaxSteps == 2
\* positions recorded without a clearTrail in between, in the trail specification
MaxRecordings == 1003
\* clearTrail calls explored by the trail specification
MaxClears == 1
\* calls of Simulation::init in a run
MaxInits == 2
\* iterations of the input block in a run
MaxPolls == 5

-----------------------------------------------------------------------------
(* Program constants *)

\* main(): const double maxAccum = 0.25 (seconds) = 1000 ticks
maxAccum == 1000
\* main(): const int maxSubstepsPerFrame = 500
maxSubstepsPerFrame == 500
\* Planet::maxTrailLength
maxTrailLength == 1000
\* sim.setTimeStep(0.0015f) = 6 ticks
ProgramTimeStep == 6
\* ticks per unit of simulated time in a product with dt
TicksPerUnit == 8
\* scale of a normalised direction vector (|dir| = DirScale)
DirScale == 100
\* grid units of the length 1.0 (Planet::radius = 1.0f, positions +-0.5f)
LengthUnit == 100
\* PhysicsEngine::G = 0.05 and PhysicsEngine::softening = 0.02, in grid units
\* chosen so that a force between bodies a length unit apart is not truncated
\* to zero
DefaultG == 400
DefaultSoftening == 20
\* main(): doubleClickDelay = 0.3 s, in ticks
doubleClickDelay == 1200
\* GUI::PANEL_WIDTH and the width of the window, in pixels
PANEL_WIDTH == 320
WinW == 1280

-----------------------------------------------------------------------------
(* Arithmetic *)

Abs(a) == IF a < 0 THEN -a ELSE a

Min(a, b) == IF a < b THEN a ELSE b

\* float division a / b on the grid: truncates toward zero, b > 0
Quot(a, b) == IF a >= 0 THEN a \div b ELSE -((-a) \div b)

\* std::sqrt on the grid: the largest s with s*s <= n, found by bisection
\* between lo (lo*lo <= n) and hi (n < hi*hi)
RECURSIVE SqrtBetween(_, _, _)
SqrtBetween(n, lo, hi) ==
    IF hi - lo <= 1 THEN lo
    ELSE LET mid == (lo + hi) \div 2
         IN  IF mid * mid <= n THEN SqrtBetween(n, mid, hi)
             ELSE SqrtBetween(n, lo, mid)

ISqrt(n) == SqrtBetween(n, 0, 46341)

\* A float that is no finite number.  0.0f / 0.0f is NaN; x / 0.0f with x # 0
\* is an infinity, which the model does not tell from NaN.  The value is an
\* integer no computation of the model produces.
NaN == -1000000000

IsNaN(x) == x = NaN

\* float +, -, *: NaN if an operand is NaN
FAdd(x, y) == IF IsNaN(x) \/ IsNaN(y) THEN NaN ELSE x + y

FSub(x, y) == IF IsNaN(x) \/ IsNaN(y) THEN NaN ELSE x - y

FMul(x, y) == IF IsNaN(x) \/ IsNaN(y) THEN NaN ELSE x * y

FNeg(x) == IF IsNaN(x) THEN NaN ELSE -x

\* float /: NaN if an operand is NaN or the divisor is zero
FDiv(x, y) ==
    IF IsNaN(x) \/ IsNaN(y) \/ y = 0 THEN NaN
    ELSE Quot(x, Abs(y)) * (IF y < 0 THEN -1 ELSE 1)

\* std::sqrt
FSqrt(x) == IF IsNaN(x) THEN NaN ELSE ISqrt(x)

-----------------------------------------------------------------------------
(* Vector2 *)

Zero2 == << 0, 0 >>

VAdd(a, b) == << FAdd(a[1], b[1]), FAdd(a[2], b[2]) >>

VSub(a, b) == << FSub(a[1], b[1]), FSub(a[2], b[2]) >>

VNeg(a) == << FNeg(a[1]), FNeg(a[2]) >>

\* Vector2::operator/(double): both components divided by the scalar
VDiv(a, s) == << FDiv(a[1], s), FDiv(a[2], s) >>

\* Vector2 * dt: dt is a number of ticks
VTimesDt(a, dt) ==
    << FDiv(FMul(a[1], dt), TicksPerUnit), FDiv(FMul(a[2], dt), TicksPerUnit) >>

\* Vector2::length
Length(a) == FSqrt(FAdd(FMul(a[1], a[1]), FMul(a[2], a[2])))

\* Vector2::normalized: the zero vector for length 0, else the vector over
\* its length (a direction, kept at scale DirScale)
Normalized(a) ==
    LET l == Length(a)
    IN  IF l = 0 THEN Zero2
        ELSE << FDiv(FMul(a[1], DirScale), l), FDiv(FMul(a[2], DirScale), l) >>

\* dir * forceMag for a direction at scale DirScale
DirTimes(dir, mag) ==
    << FDiv(FMul(dir[1], mag), DirScale), FDiv(FMul(dir[2], mag), DirScale) >>

-----------------------------------------------------------------------------
(* Planet *)

\* Planet(initialV, initialP): mass 1.0, radius 1.0, no force, no trail
NewPlanet(initialV, initialP) ==
    [ p |-> initialP, v |-> initialV, forceAccumulator |-> Zero2,
      mass |-> 1, radius |-> LengthUnit, trail |-> << >> ]

\* faulty variant: the trail evicts only when it is longer than the cap, and
\* then does not record
recordPositionLate(b) ==
    IF Len(b.trail) > maxTrailLength THEN [ b EXCEPT !.trail = Tail(@) ]
    ELSE [ b EXCEPT !.trail = Append(@, b.p) ]

\* faulty variant: a full trail evicts its newest entry
recordPositionDropsNewest(b) ==
    LET kept == IF Len(b.trail) >= maxTrailLength
                THEN SubSeq(b.trail, 1, Len(b.trail) - 1) ELSE b.trail
    IN  [ b EXCEPT !.trail = Append(kept, b.p) ]

\* Planet::recordPosition
recordPosition(b) ==
    LET kept == IF Len(b.trail) >= maxTrailLength THEN Tail(b.trail) ELSE b.trail
    IN  [ b EXCEPT !.trail = Append(kept, b.p) ]

\* Planet::clearTrail
clearTrail(b) == [ b EXCEPT !.trail = << >> ]

\* faulty variant: a force changes the velocity as soon as it is applied
applyForceKicks(b, force) ==
    [ b EXCEPT !.forceAccumulator = VAdd(@, force),
               !.v = VAdd(@, VDiv(force, b.mass)) ]

\* Planet::applyForce: the force is added to the accumulator (dt is unused)
applyForce(b, force) ==
    [ b EXCEPT !.forceAccumulator = VAdd(b.forceAccumulator, force) ]

\* faulty variant: the accumulator keeps the force of the step before
clearForcesKeeps(b) == b

\* Planet::clearForces
clearForces(b) == [ b EXCEPT !.forceAccumulator = Zero2 ]

\* faulty variant: the timestep grows with the number of steps made so far
integrateVelocityAmbient(b, dt) ==
    LET acceleration == VDiv(b.forceAccumulator, b.mass)
    IN  [ b EXCEPT !.v = VAdd(b.v, VTimesDt(acceleration, dt + hist.steps)) ]

\* Planet::integrateVelocity: v += (forceAccumulator / mass) * dt
integrateVelocity(b, dt) ==
    LET acceleration == VDiv(b.forceAccumulator, b.mass)
    IN  [ b EXCEPT !.v = VAdd(b.v, VTimesDt(acceleration, dt)) ]

-----------------------------------------------------------------------------
(* PhysicsEngine: every loop runs over the registered pointers `reg`        *)
(* (PhysicsEngine::bodies), which index the planet vector `ps`.            *)

\* for (Planet* p : bodies) p->clearForces();  from position k on
RECURSIVE ClearFrom(_, _, _)
ClearFrom(ps, reg, k) ==
    IF k > Len(reg) THEN ps
    ELSE ClearFrom([ ps EXCEPT ![reg[k]] = clearForces(ps[reg[k]]) ], reg, k + 1)

\* faulty variant: the pair is not skipped when the denominator is zero
PairForceUnguarded(a, b, g, eps) ==
    LET r     == VSub(b.p, a.p)
        dist  == Length(r)
        denom == FAdd(FMul(dist, dist), eps * eps)
    IN  DirTimes(Normalized(r), FDiv(g * a.mass * b.mass, denom))

\* the force on a exerted by b, as computed for one pair (lines 38-45);
\* Zero2 stands for the `continue` of a zero denominator
PairForce(a, b, g, eps) ==
    LET r     == VSub(b.p, a.p)
        dist  == Length(r)
        denom == FAdd(FMul(dist, dist), eps * eps)
    IN  IF denom = 0 THEN Zero2
        ELSE LET forceMag == FDiv(g * a.mass * b.mass, denom)
                 dir      == Normalized(r)
             IN  DirTimes(dir, forceMag)

\* faulty variant: both bodies of the pair receive forceOnA
ApplyPairSameSign(ps, reg, i, j, g, eps) ==
    LET a        == reg[i + 1]
        b        == reg[j + 1]
        forceOnA == PairForce(ps[a], ps[b], g, eps)
        ps1      == [ ps  EXCEPT ![a] = applyForce(ps[a], forceOnA) ]
    IN  [ ps1 EXCEPT ![b] = applyForce(ps1[b], forceOnA) ]

\* one iteration of the inner loop for the 0-based indices i < j:
\* a->applyForce(forceOnA); b->applyForce(-forceOnA)
ApplyPair(ps, reg, i, j, g, eps) ==
    LET a        == reg[i + 1]
        b        == reg[j + 1]
        forceOnA == PairForce(ps[a], ps[b], g, eps)
        ps1      == [ ps  EXCEPT ![a] = applyForce(ps[a], forceOnA) ]
    IN  [ ps1 EXCEPT ![b] = applyForce(ps1[b], VNeg(forceOnA)) ]

\* faulty variant: the inner loop starts at the first body
InnerStartZero(i) == 0

\* line 34: the inner loop of row i starts at j = i + 1
InnerStart(i) == i + 1

\* the nested loops  for i in [0,n)  for j in [i+1,n)  from the position (i, j) on
RECURSIVE PairsFrom(_, _, _, _, _, _)
PairsFrom(ps, reg, i, j, g, eps) ==
    IF i >= Len(reg) THEN ps
    ELSE IF j >= Len(reg) THEN PairsFrom(ps, reg, i + 1, InnerStart(i + 1), g, eps)
    ELSE PairsFrom(ApplyPair(ps, reg, i, j, g, eps), reg, i, j + 1, g, eps)

\* for (Planet* p : bodies) p->integrateVelocity(dt);  from position k on
RECURSIVE VelocitiesFrom(_, _, _, _)
VelocitiesFrom(ps, reg, dt, k) ==
    IF k > Len(reg) THEN ps
    ELSE VelocitiesFrom([ ps EXCEPT ![reg[k]] = integrateVelocity(ps[reg[k]], dt) ],
                        reg, dt, k + 1)

\* PhysicsEngine::computeForces
computeForces(ps, reg, dt, g, eps) ==
    VelocitiesFrom(PairsFrom(ClearFrom(ps, reg, 1), reg, 0, InnerStart(0), g, eps),
                   reg, dt, 1)

\* the body of the loop of PhysicsEngine::integrate for one planet
integrateOne(b, dt) == recordPosition([ b EXCEPT !.p = VAdd(b.p, VTimesDt(b.v, dt)) ])

\* for (Planet* p : bodies) { setP(p + v*dt); recordPosition(); }  from position k on
RECURSIVE IntegrateFrom(_, _, _, _)
IntegrateFrom(ps, reg, dt, k) ==
    IF k > Len(reg) THEN ps
    ELSE IntegrateFrom([ ps EXCEPT ![reg[k]] = integrateOne(ps[reg[k]], dt) ],
                       reg, dt, k + 1)

\* faulty variant: the loop over the bodies runs twice
integrateTwice(ps, reg, dt) == IntegrateFrom(IntegrateFrom(ps, reg, dt, 1), reg, dt, 1)

\* PhysicsEngine::integrate
integrate(ps, reg, dt) == IntegrateFrom(ps, reg, dt, 1)

-----------------------------------------------------------------------------
(* Collision resolver.  Simulation::handleCollisions is declared in         *)
(* Simulation.hpp and defined nowhere in the sources: it is modelled from   *)
(* section 4.3 of the specification.                                        *)

\* restitution coefficient e, in tenths
Restitution == 5
\* relative speed below which the merge policy fuses a colliding pair
MergeThreshold == 4
\* penetration tolerated by the positional correction
Slop == 1

Dot(a, b) == a[1] * b[1] + a[2] * b[2]

\* the largest c with c*c*c <= n
RECURSIVE CbrtFrom(_, _)
CbrtFrom(n, c) == IF (c + 1) * (c + 1) * (c + 1) > n THEN c ELSE CbrtFrom(n, c + 1)

ICbrt(n) == CbrtFrom(n, 0)

\* faulty variant: bodies count as colliding up to twice the sum of the radii
CollidingWide(a, b) ==
    LET d == Length(VSub(b.p, a.p))
    IN  ~IsNaN(d) /\ d <= 2 * (a.radius + b.radius)

\* centre distance <= sum of radii
Colliding(a, b) ==
    LET d == Length(VSub(b.p, a.p))
    IN  ~IsNaN(d) /\ d <= a.radius + b.radius

\* the collision normal from a to b; a fixed axis when the centres coincide
Normal(a, b) ==
    LET r == VSub(b.p, a.p)
    IN  IF Length(r) = 0 THEN << DirScale, 0 >> ELSE Normalized(r)

\* the shares of a correction that a and b take, by inverse mass, over
\* a common denominator; a non-positive mass is immovable (inverse mass 0)
Shares(a, b) ==
    IF a.mass > 0 /\ b.mass > 0
    THEN [ a |-> b.mass, b |-> a.mass, den |-> a.mass + b.mass ]
    ELSE IF a.mass > 0 THEN [ a |-> 1, b |-> 0, den |-> 1 ]
    ELSE IF b.mass > 0 THEN [ a |-> 0, b |-> 1, den |-> 1 ]
    ELSE [ a |-> 0, b |-> 0, den |-> 1 ]

\* policy A for the colliding bodies at i and j: impulse unless separating,
\* then positional correction
Bounce(ps, i, j) ==
    LET a    == ps[i]
        b    == ps[j]
        n    == Normal(a, b)
        vn   == Quot(Dot(VSub(b.v, a.v), n), DirScale)
        sh   == Shares(a, b)
        k    == IF vn >= 0 THEN 0 ELSE Quot((10 + Restitution) * (-vn), 10)
        pen  == (a.radius + b.radius) - Length(VSub(b.p, a.p)) - Slop
        corr == IF pen > 0 THEN Quot(pen, 2) ELSE 0
        va   == VSub(a.v, DirTimes(n, Quot(k * sh.a, sh.den)))
        vb   == VAdd(b.v, DirTimes(n, Quot(k * sh.b, sh.den)))
        pa   == VSub(a.p, DirTimes(n, Quot(corr * sh.a, sh.den)))
        pb   == VAdd(b.p, DirTimes(n, Quot(corr * sh.b, sh.den)))
    IN  [ ps EXCEPT ![i] = [ a EXCEPT !.v = va, !.p = pa ],
                    ![j] = [ b EXCEPT !.v = vb, !.p = pb ] ]

\* faulty variant: the survivor keeps its own mass
FuseKeepsMass(a, b) == [ a EXCEPT !.v = VDiv(VAdd(a.v, b.v), 2) ]

\* policy B: the body at j is absorbed into the body at i
Fuse(a, b) ==
    LET m == a.mass + b.mass
    IN  [ a EXCEPT !.mass = m,
                   !.v = VDiv(VAdd(<< a.v[1] * a.mass, a.v[2] * a.mass >>,
                                   << b.v[1] * b.mass, b.v[2] * b.mass >>), m),
                   !.p = VDiv(VAdd(<< a.p[1] * a.mass, a.p[2] * a.mass >>,
                                   << b.p[1] * b.mass, b.p[2] * b.mass >>), m),
                   !.radius = ICbrt(a.radius * a.radius * a.radius
                                    + b.radius * b.radius * b.radius) ]

\* faulty variant: a merge collects both bodies of the pair
ResolvePairDropsBoth(w, i, j, pol) ==
    IF i \in w.gone \/ j \in w.gone \/ ~Colliding(w.ps[i], w.ps[j]) THEN w
    ELSE IF pol = "merge"
            /\ Length(VSub(w.ps[j].v, w.ps[i].v)) < MergeThreshold
            /\ w.ps[i].mass + w.ps[j].mass > 0
         THEN [ ps   |-> [ w.ps EXCEPT ![i] = Fuse(w.ps[i], w.ps[j]) ],
                gone |-> w.gone \cup { i, j } ]
         ELSE [ w EXCEPT !.ps = Bounce(w.ps, i, j) ]

\* one pair (i, j), 1-based, of the collision pass; w = [ps, gone], gone the
\* indices absorbed so far in this pass
ResolvePair(w, i, j, pol) ==
    IF i \in w.gone \/ j \in w.gone \/ ~Colliding(w.ps[i], w.ps[j]) THEN w
    ELSE IF pol = "merge"
            /\ Length(VSub(w.ps[j].v, w.ps[i].v)) < MergeThreshold
            /\ w.ps[i].mass + w.ps[j].mass > 0
         THEN [ ps   |-> [ w.ps EXCEPT ![i] = Fuse(w.ps[i], w.ps[j]) ],
                gone |-> w.gone \cup { j } ]
         ELSE [ w EXCEPT !.ps = Bounce(w.ps, i, j) ]

\* the pass over all pairs i < j from the position (i, j) on
RECURSIVE CollideFrom(_, _, _, _)
CollideFrom(w, i, j, pol) ==
    IF i > Len(w.ps) THEN w
    ELSE IF j > Len(w.ps) THEN CollideFrom(w, i + 1, i + 2, pol)
    ELSE CollideFrom(ResolvePair(w, i, j, pol), i, j + 1, pol)

\* faulty variant: the collected indices are erased in ascending order
NextErasedAscending(gone) == CHOOSE x \in gone : \A y \in gone : x <= y

\* the collected index that is erased next: the largest
NextErased(gone) == CHOOSE x \in gone : \A y \in gone : y <= x

\* vector::erase of the element at index k
Erase(ps, k) == SubSeq(ps, 1, k - 1) \o SubSeq(ps, k + 1, Len(ps))

\* the sequence without the elements at the indices in gone (the erasures
\* after the pass, in descending index order)
RECURSIVE EraseAll(_, _)
EraseAll(ps, gone) ==
    IF gone = { } THEN ps
    ELSE LET k == NextErased(gone)
         IN  EraseAll(Erase(ps, k), gone \ { k })

\* Simulation::handleCollisions under the policy pol ("none", "bounce", "merge")
handleCollisions(ps, pol) ==
    IF pol = "none" THEN ps
    ELSE LET w == CollideFrom([ ps |-> ps, gone |-> { } ], 1, 2, pol)
         IN  EraseAll(w.ps, w.gone)

\* faulty variant: the registry is kept
clearBodiesKeeps(reg) == reg

\* PhysicsEngine::clearBodies
clearBodies(reg) == << >>

\* PhysicsEngine::addBody: the pointer to the planet at index k is appended
addBody(reg, k) == Append(reg, k)

\* for (auto &pl : planets) physics.addBody(&pl);  from position k on
RECURSIVE AddBodiesFrom(_, _, _)
AddBodiesFrom(reg, ps, k) ==
    IF k > Len(ps) THEN reg ELSE AddBodiesFrom(addBody(reg, k), ps, k + 1)

\* the registry after a step or a (re)initialisation: one pointer per planet
Registered(ps) == [ k \in 1 .. Len(ps) |-> k ]

-----------------------------------------------------------------------------
(* Simulation: one step *)

\* faulty variant: the positions are integrated before the forces are computed
UpdatePhasesSwapped == << "integrate", "computeForces" >>

\* faulty variant: update() integrates twice
UpdatePhasesTwice == << "computeForces", "integrate", "integrate" >>

\* Simulation::update: physics.computeForces(deltaTime); physics.integrate(deltaTime)
UpdatePhases == << "computeForces", "integrate" >>

\* Simulation::step (declared in Simulation.hpp, defined nowhere in the
\* sources; section 4.4): the phases of update, then collision resolution
StepPhases == UpdatePhases \o << "handleCollisions" >>

\* one phase applied to the simulation s = [planets, bodies, dt, G, softening, policy]
RunPhase(name, s) ==
    CASE name = "computeForces" ->
           [ s EXCEPT !.planets = computeForces(s.planets, s.bodies, s.dt, s.G, s.softening) ]
      [] name = "integrate" ->
           [ s EXCEPT !.planets = integrate(s.planets, s.bodies, s.dt) ]
      [] name = "handleCollisions" ->
           LET ps == handleCollisions(s.planets, s.policy)
           IN  [ s EXCEPT !.planets = ps, !.bodies = Registered(ps) ]

\* the phases order[k], order[k+1], ... applied one after the other
RECURSIVE RunPhases(_, _, _)
RunPhases(order, k, s) ==
    IF k > Len(order) THEN s ELSE RunPhases(order, k + 1, RunPhase(order[k], s))

\* Simulation::update
update(s) == RunPhases(UpdatePhases, 1, s)

\* Simulation::step
step(s) == RunPhases(StepPhases, 1, s)

-----------------------------------------------------------------------------
(* Initialisation *)

\* Simulation::init: two planets of mass 5 at rest at (-0.5, 0) and (0.5, 0)
init ==
    << [ NewPlanet(Zero2, << -(LengthUnit \div 2), 0 >>) EXCEPT !.mass = 5 ],
       [ NewPlanet(Zero2, << LengthUnit \div 2, 0 >>) EXCEPT !.mass = 5 ] >>

\* Simulation::initRandom(N, seed) is declared in Simulation.hpp and defined
\* nowhere in the sources: N planets whose position, velocity, mass and radius
\* are a fixed function of the seed and of their index (section 3)
RandomPlanet(seed, k) ==
    [ p |-> << (((seed * 7 + k * 13) % 9) - 4) * 10,
               (((seed * 3 + k * 5) % 7) - 3) * 10 >>,
      v |-> << ((seed + 2 * k) % 5) - 2, ((2 * seed + k) % 5) - 2 >>,
      forceAccumulator |-> Zero2,
      mass |-> 1 + ((seed + k) % 3),
      radius |-> 2 + ((seed + k) % 3),
      trail |-> << >> ]

initRandom(N, seed) == [ k \in 1 .. N |-> RandomPlanet(seed, k) ]

\* for (auto &p : sim.getPlanets()) p.clearTrail();
ClearTrails(ps) == [ k \in 1 .. Len(ps) |-> clearTrail(ps[k]) ]

-----------------------------------------------------------------------------
(* Inputs of the driver *)

\* the timesteps a run is configured with: the program's and a finer one
TimeSteps == { ProgramTimeStep, 1 }

\* durations of a frame in ticks: a fast frame and a stall beyond maxAccum
FrameTimes == { 4, maxAccum + 200 }

\* values of the GUI's time scale slider (0.01 .. 10)
TimeScales == { 1, 2 }

\* seeds of a reinitialisation (ImGui::GetTime() * 1000)
Seeds == { 1337 }

\* the seed of main(): sim.initRandom(N, 1337)
MainSeed == 1337

\* the observations kept of a run
NoHist ==
    [ stepDt  |-> 0,      \* timestep of the latest step() (0: none yet)
      stepBase |-> 0,     \* baseSimDt at the latest step()
      stepScale |-> 0,    \* GUI::timeScale at the latest step()
      frameSteps |-> 0,   \* step() calls of the current frame
      added   |-> 0,      \* time added to the accumulator by the latest frame
      credit  |-> 0,      \* time added to the accumulator since the latest reinitialisation
      spent   |-> 0,      \* time taken from the accumulator since the latest reinitialisation
      steps   |-> 0,      \* step() calls so far
      stale   |-> 0,      \* accumulator found by the latest restart handling
      log     |-> << >>,  \* phases completed by the step in progress / by the latest step
      phase   |-> 0,      \* index into StepPhases of the phase in progress
      pre     |-> << >>,  \* the planets when the step in progress / the latest step began
      origin  |-> << >>,  \* the planets when the first step began
      ids     |-> << >>,  \* per planet, its index when the step in progress began
      pairs   |-> << >>,  \* pairs resolved by the collision pass in progress / the latest
      samples |-> << >>,  \* per body, the positions recorded since the latest clearTrail
      clears  |-> 0,      \* clearTrail calls so far
      inits   |-> 0,      \* Simulation::init calls so far
      polls   |-> 0,      \* iterations of the input block so far
      hWas    |-> FALSE,  \* the H key was down at the previous poll
      spaceWas |-> FALSE, \* the SPACE key was down at the previous poll
      key     |-> [ hPress |-> FALSE, spacePress |-> FALSE, captured |-> FALSE,
                    visibleBefore |-> TRUE, visibleAfter |-> TRUE,
                    pausedBefore |-> FALSE, pausedAfter |-> FALSE ],
                          \* the latest poll: the keys the user pressed, whether the
                          \* GUI captured the keyboard, GUI::visible and
                          \* GUI::isPaused before and after
      mouseWas |-> FALSE, \* the left mouse button was down at the previous poll
      pressAt |-> -1,     \* time of the latest press in the pane that is not yet
                          \* part of a double-click (-1: none)
      click   |-> [ kind |-> "none", nearest |-> -1, before |-> -1, after |-> -1 ],
                          \* the latest poll: what the user did, the planet nearest
                          \* to the cursor, the follow target before and after
      stepG   |-> 0,      \* Simulation::G at the latest update()
      stepSoftening |-> 0, \* Simulation::softening at the latest update()
      camera  |-> 0,      \* step() calls made when Camera::update last read the planets
      drawn   |-> 0,      \* step() calls made when the renderer last drew the planets
      visits  |-> << >> ] \* pairs visited by the force computation in progress / the latest

\* main() before the first iteration of its loop: the statics of the input
\* block (lines 89-92, 152), GUI::visible and Camera::followedPlanetIndex
NoInput ==
    [ now |-> 0,                       \* glfwGetTime() at the latest poll, in ticks
      lastClickTime |-> 0,
      mouseButtonWasPressed |-> FALSE,
      hKeyPressed |-> FALSE,
      visible |-> TRUE,
      followedPlanetIndex |-> -1 ]

\* the simulation as step() sees it
Sim(dt) ==
    [ planets |-> planets, bodies |-> bodies, dt |-> dt, G |-> simG,
      softening |-> simSoftening, policy |-> policy ]

\* the simulation as update() sees it: physics.computeForces and
\* physics.integrate use the members G and softening of PhysicsEngine
Engine(dt) ==
    [ planets |-> planets, bodies |-> bodies, dt |-> dt, G |-> G,
      softening |-> softening, policy |-> policy ]

-----------------------------------------------------------------------------
(* main(): one iteration of the loop is PollInput, BeginPhysics, Substep*,  *)
(* EndSubsteps, and one of the Gui actions (camera, drawing, gui.render).   *)

\* faulty variant: the camera and the renderer run before the physics block
FrameOrderDrawFirst == << "input", "render", "draw", "physics", "gui" >>

\* the blocks of one iteration of the loop of main(), in program order: input
\* (lines 56-178), physics (180-208), camera.update and the camera keys
\* (210-234, "render"), the renderer's drawing (237-244), gui.render (248)
FrameOrder == << "input", "physics", "render", "draw", "gui" >>

\* the block that follows the block p; the first follows the last
After(p) ==
    LET k == CHOOSE i \in 1 .. Len(FrameOrder) : FrameOrder[i] = p
    IN  FrameOrder[(k % Len(FrameOrder)) + 1]

Init ==
    /\ variant \in { "main", "part006" }
    /\ pc = "input"
    /\ frame = 0
    /\ deltaTime = 0
    /\ accumulator = 0
    /\ substeps = 0
    /\ isPaused = FALSE
    /\ restartTriggered = FALSE
    /\ timeScale = 1
    /\ spaceKeyPressed = FALSE
    /\ simDt \in TimeSteps
    /\ baseSimDt = simDt
    /\ G = DefaultG
    /\ softening = DefaultSoftening
    /\ simG = DefaultG
    /\ simSoftening = DefaultSoftening
    /\ policy \in { "bounce", "merge" }
    /\ planets = initRandom(InitialBodies, MainSeed)
    /\ bodies = Registered(planets)
    /\ fi = 0
    /\ fj = 0
    /\ toRemove = { }
    /\ input = NoInput
    /\ hist = NoHist

physicsVars ==
    << G, softening, simG, simSoftening, policy, fi, fj, toRemove, input >>

\* lines 56-58 and 160-168: the frame's duration is measured; SPACE toggles
\* the pause on its press edge unless the GUI captures the keyboard
PollInput ==
    /\ pc = "input"
    /\ frame < MaxFrames
    /\ \E dT \in FrameTimes, spaceDown \in BOOLEAN, guiCapturesKeyboard \in BOOLEAN :
          /\ deltaTime' = dT
          /\ IF guiCapturesKeyboard
                THEN UNCHANGED << isPaused, spaceKeyPressed >>
                ELSE IF spaceDown /\ ~spaceKeyPressed
                       THEN isPaused' = ~isPaused /\ spaceKeyPressed' = TRUE
                       ELSE IF ~spaceDown
                              THEN spaceKeyPressed' = FALSE /\ UNCHANGED isPaused
                              ELSE UNCHANGED << isPaused, spaceKeyPressed >>
    /\ pc' = After("input")
    /\ UNCHANGED << variant, frame, accumulator, substeps, restartTriggered, timeScale,
                    simDt, baseSimDt, planets, bodies, hist >>
    /\ UNCHANGED physicsVars

\* faulty variant: the loop test without the cap on the substeps
LoopTestNoCap(acc, dt, n) == acc >= dt

\* the frame time that is added to the accumulator: main.cpp line 190 adds
\* deltaTime, part_006 lines 129-130 add deltaTime * timeScale
FrameTimeAdded(var, dT, ts) == IF var = "main" THEN dT ELSE dT * ts

\* faulty variant: the restart flag is ignored
RestartIgnored(acc, restart) == acc

\* lines 183-186: the restart flag resets the accumulator
AfterRestartCheck(acc, restart) == IF restart THEN 0 ELSE acc

\* faulty variant: the accumulator is never clamped
Unclamped(acc) == acc

\* lines 190-194: the frame time is added, then the accumulator is clamped
Clamped(acc) == IF acc > maxAccum THEN maxAccum ELSE acc

\* faulty variant: the loop is entered whether paused or not
PhysicsEntryAlways(paused) == "substep"

\* line 188, if (!gui.isSimulationPaused()): the loop is entered unless paused
PhysicsEntry(paused) == IF paused THEN After("physics") ELSE "substep"

\* lines 182-197: restart check, then (unless paused) accumulate and clamp
BeginPhysics ==
    /\ pc = "physics"
    /\ LET acc0 == AfterRestartCheck(accumulator, restartTriggered)
           acc1 == Clamped(acc0 + FrameTimeAdded(variant, deltaTime, timeScale))
       IN  /\ restartTriggered' = FALSE
           /\ substeps' = 0
           /\ IF isPaused
                 THEN /\ accumulator' = acc0
                      /\ pc' = PhysicsEntry(isPaused)
                      /\ UNCHANGED baseSimDt
                      /\ hist' = [ hist EXCEPT
                             !.added = 0,
                             !.frameSteps = 0,
                             !.stale = IF restartTriggered THEN accumulator ELSE @ ]
                 ELSE /\ accumulator' = acc1
                      /\ pc' = PhysicsEntry(isPaused)
                      /\ baseSimDt' = simDt
                      /\ hist' = [ hist EXCEPT
                             !.added = FrameTimeAdded(variant, deltaTime, timeScale),
                             !.frameSteps = 0,
                             !.credit = @ + (acc1 - acc0),
                             !.stale = IF restartTriggered THEN accumulator ELSE @ ]
    /\ UNCHANGED << variant, frame, deltaTime, isPaused, timeScale, spaceKeyPressed,
                    simDt, planets, bodies >>
    /\ UNCHANGED physicsVars

\* faulty variant: no step is made while the simulation holds no body
LoopTestWithBodies(acc, dt, n) ==
    acc >= dt /\ n < maxSubstepsPerFrame /\ Len(planets) > 0

\* faulty variant: the loop runs while accumulator > baseSimDt
LoopTestStrict(acc, dt, n) == acc > dt /\ n < maxSubstepsPerFrame

\* line 198: while (accumulator >= baseSimDt && substeps < maxSubstepsPerFrame)
LoopTest(acc, dt, n) == acc >= dt /\ n < maxSubstepsPerFrame

\* faulty variant: every driver steps with the base timestep
StepDtBase(var, dt, ts) == dt

\* the timestep of a step: main.cpp lines 200-201 install baseSimDt * timeScale,
\* part_006 line 139 steps with the timestep of the simulation
StepDt(var, dt, ts) == IF var = "main" THEN dt * ts ELSE dt

\* faulty variant: the timestep installed for the step is kept
RestoredDtKeeps(base, scaled) == scaled

\* line 203, sim.setTimeStep(baseSimDt): the timestep of the simulation after
\* a step made with the timestep `scaled`
RestoredDt(base, scaled) == base

\* lines 199-205: one iteration of the substep loop
Substep ==
    /\ pc = "substep"
    /\ LoopTest(accumulator, baseSimDt, substeps)
    /\ LET dt == StepDt(variant, baseSimDt, timeScale)
           s  == step(Sim(dt))
       IN  /\ planets' = s.planets
           /\ bodies' = s.bodies
           /\ hist' = [ hist EXCEPT !.stepDt = dt, !.stepBase = baseSimDt,
                                    !.stepScale = timeScale,
                                    !.spent = @ + baseSimDt,
                                    !.steps = @ + 1, !.frameSteps = @ + 1 ]
    /\ simDt' = RestoredDt(baseSimDt, StepDt(variant, baseSimDt, timeScale))
    /\ accumulator' = accumulator - baseSimDt
    /\ substeps' = substeps + 1
    /\ UNCHANGED << variant, pc, frame, deltaTime, isPaused, restartTriggered,
                    timeScale, spaceKeyPressed, baseSimDt >>
    /\ UNCHANGED physicsVars

\* line 198, the loop test failing
EndSubsteps ==
    /\ pc = "substep"
    /\ ~LoopTest(accumulator, baseSimDt, substeps)
    /\ pc' = After("physics")
    /\ UNCHANGED << variant, frame, deltaTime, accumulator, substeps, isPaused,
                    restartTriggered, timeScale, spaceKeyPressed, simDt, baseSimDt,
                    planets, bodies, hist >>
    /\ UNCHANGED physicsVars

\* lines 210-234: camera.update(sim.getPlanets(), deltaTime) reads the planets
CameraUpdate ==
    /\ pc = "render"
    /\ pc' = After("render")
    /\ hist' = [ hist EXCEPT !.camera = hist.steps ]
    /\ UNCHANGED << variant, frame, deltaTime, accumulator, substeps, isPaused,
                    restartTriggered, timeScale, spaceKeyPressed, simDt, baseSimDt,
                    planets, bodies >>
    /\ UNCHANGED physicsVars

\* lines 237-244: renderer.drawTrails and renderer.drawPlanets read the planets
Draw ==
    /\ pc = "draw"
    /\ pc' = After("draw")
    /\ hist' = [ hist EXCEPT !.drawn = hist.steps ]
    /\ UNCHANGED << variant, frame, deltaTime, accumulator, substeps, isPaused,
                    restartTriggered, timeScale, spaceKeyPressed, simDt, baseSimDt,
                    planets, bodies >>
    /\ UNCHANGED physicsVars

\* line 248, gui.render with no control of the GUI used
GuiIdle ==
    /\ pc = "gui"
    /\ pc' = After("gui")
    /\ frame' = frame + 1
    /\ UNCHANGED << variant, deltaTime, accumulator, substeps, isPaused,
                    restartTriggered, timeScale, spaceKeyPressed, simDt, baseSimDt,
                    planets, bodies, hist >>
    /\ UNCHANGED physicsVars

\* GUI::render, the Play / Pause button
GuiPausePlay ==
    /\ pc = "gui"
    /\ isPaused' = ~isPaused
    /\ pc' = After("gui")
    /\ frame' = frame + 1
    /\ UNCHANGED << variant, deltaTime, accumulator, substeps, restartTriggered,
                    timeScale, spaceKeyPressed, simDt, baseSimDt, planets, bodies, hist >>
    /\ UNCHANGED physicsVars

\* GUI::render, the Time Scale slider
GuiTimeScale ==
    /\ pc = "gui"
    /\ \E ts \in TimeScales \ { timeScale } : timeScale' = ts
    /\ pc' = After("gui")
    /\ frame' = frame + 1
    /\ UNCHANGED << variant, deltaTime, accumulator, substeps, isPaused,
                    restartTriggered, spaceKeyPressed, simDt, baseSimDt, planets,
                    bodies, hist >>
    /\ UNCHANGED physicsVars

\* GUI::render, "Reinitialize (12 bodies)" and "Create Custom Simulation":
\* initRandom, every trail cleared, restartTriggered set
GuiReinit ==
    /\ pc = "gui"
    /\ \E seed \in Seeds :
          planets' = ClearTrails(initRandom(InitialBodies, seed))
    /\ bodies' = Registered(planets')
    /\ restartTriggered' = TRUE
    /\ hist' = [ hist EXCEPT !.credit = 0, !.spent = 0 ]
    /\ pc' = After("gui")
    /\ frame' = frame + 1
    /\ UNCHANGED << variant, deltaTime, accumulator, substeps, isPaused, timeScale,
                    spaceKeyPressed, simDt, baseSimDt >>
    /\ UNCHANGED physicsVars

Next ==
    \/ PollInput
    \/ BeginPhysics
    \/ Substep
    \/ EndSubsteps
    \/ CameraUpdate
    \/ Draw
    \/ GuiIdle
    \/ GuiPausePlay
    \/ GuiTimeScale
    \/ GuiReinit

Spec == Init /\ [][Next]_vars

-----------------------------------------------------------------------------
(* Properties of the driver (specification Spec).                           *)

\* C1: in every frame the number of step() calls is at most
\* maxSubstepsPerFrame (500), whatever the frame time, the time scale and the
\* timestep are; the counter of the loop counts exactly these calls.
C1_SubstepCap ==
    /\ hist.frameSteps <= maxSubstepsPerFrame
    /\ (pc \in { "substep", "render" } => substeps = hist.frameSteps)

\* a frame whose loop was ended by the cap with time for more steps left
C1_CapReached ==
    /\ pc = "render"
    /\ hist.frameSteps = maxSubstepsPerFrame
    /\ accumulator >= baseSimDt

\* C2: before any step of a frame the accumulator is at most maxAccum
\* (0.25 s), so the steps of one frame and what they leave in the accumulator
\* together never exceed maxAccum, a frame makes at most floor(maxAccum / dt)
\* steps, and nothing above the clamp reaches a later frame.
C2_LagAbsorbed ==
    /\ accumulator <= maxAccum
    /\ (pc \in { "substep", "render" } =>
          /\ accumulator + hist.frameSteps * baseSimDt <= maxAccum
          /\ hist.frameSteps <= maxAccum \div baseSimDt)

\* a frame longer than maxAccum that made exactly floor(maxAccum / dt) steps
C2_LongFrameClamped ==
    /\ pc = "render"
    /\ ~isPaused
    /\ deltaTime > maxAccum
    /\ hist.frameSteps = maxAccum \div baseSimDt
    /\ hist.frameSteps < maxSubstepsPerFrame

C4_RestartResets ==
    /\ (restartTriggered => pc \in { "input", "physics" })
    /\ (~restartTriggered => accumulator = hist.credit - hist.spent)
    /\ hist.spent <= hist.credit

\* a restart found time in the accumulator, dropped it, and steps ran after
C4_StaleTimeDropped ==
    /\ ~restartTriggered
    /\ hist.stale > 0
    /\ hist.spent > 0
    /\ hist.frameSteps > 0

\* C5 as stated: the frame time is multiplied by the time scale before it is
\* added to the accumulator, and every step advances by the fixed baseSimDt.
C5_FixedStepScaledFrameTime ==
    /\ (pc \in { "substep", "render" } /\ ~isPaused =>
          hist.added = deltaTime * timeScale)
    /\ (hist.steps > 0 => hist.stepDt = hist.stepBase)

\* C5 amended: the driver of main.cpp adds the unscaled frame time and hands
\* every step the timestep baseSimDt * timeScale; the driver of part_006 adds
\* the frame time multiplied by the time scale and steps with the unscaled
\* timestep; both take baseSimDt from the accumulator for each step.
C5_TimeScale ==
    /\ (pc \in { "substep", "render" } /\ ~isPaused =>
          hist.added = IF variant = "main" THEN deltaTime
                       ELSE deltaTime * timeScale)
    /\ (hist.steps > 0 =>
          hist.stepDt = IF variant = "main" THEN hist.stepBase * hist.stepScale
                        ELSE hist.stepBase)
    /\ hist.spent <= hist.steps * baseSimDt

\* the driver of main.cpp made a step at time scale 2
C5_ScaledStep ==
    /\ variant = "main"
    /\ hist.steps > 0
    /\ hist.stepScale = 2
    /\ hist.stepDt = 2 * hist.stepBase
    /\ hist.added = deltaTime

\* C23: in every frame the camera, the renderer and the GUI read the planets
\* only with every step() call of the frame complete, and all three see the
\* planets the latest step left; the planets change only by a step() of the
\* physics block or by a reinitialisation in gui.render, which ends the frame,
\* so a reinitialisation falls after the steps of its frame and before those
\* of the next.
C23_ReadersAfterSteps ==
    /\ [](/\ (pc \in { "render", "draw", "gui" } =>
                /\ (isPaused \/ ~LoopTest(accumulator, baseSimDt, substeps))
                /\ substeps = hist.frameSteps)
          /\ (pc \in { "draw", "gui" } => hist.camera = hist.steps)
          /\ (pc = "gui" => hist.drawn = hist.steps))
    /\ [][ /\ (hist'.steps # hist.steps => pc = "substep" /\ pc' = "substep")
           /\ (planets' # planets /\ hist'.steps = hist.steps =>
                 /\ pc = "gui"
                 /\ pc' = "input"
                 /\ frame' = frame + 1
                 /\ restartTriggered')
           /\ (pc \in { "render", "draw" } => planets' = planets) ]_vars

\* the GUI is about to read the planets of a frame that made steps, after a
\* reinitialisation by the GUI of an earlier frame that made steps too
C23_ReadAfterReinit ==
    /\ pc = "gui"
    /\ hist.frameSteps > 0
    /\ hist.steps > hist.frameSteps
    /\ hist.spent = hist.frameSteps * baseSimDt
    /\ hist.camera = hist.steps
    /\ hist.drawn = hist.steps

\* C28 as stated: while the simulation is paused no step is made and the
\* accumulator is left unchanged.
C28_PausedAccumulatorUnchanged ==
    [][ isPaused => hist'.steps = hist.steps /\ accumulator' = accumulator ]_vars

\* C28: while the simulation is paused the driver makes no step and adds no
\* time to the accumulator, which changes only by the reset to zero after a
\* reinitialisation; the planets change only by a reinitialisation; and the
\* physics block of a frame that is not paused adds the duration of that
\* frame alone, however many paused frames came before it.
C28_PausedAddsNothing ==
    [][ /\ (isPaused =>
              /\ hist'.steps = hist.steps
              /\ accumulator' = (IF pc = "physics" /\ restartTriggered THEN 0
                                 ELSE accumulator)
              /\ (planets' # planets => pc = "gui" /\ restartTriggered'))
        /\ (pc = "physics" /\ isPaused => hist'.added = 0 /\ pc' # "substep")
        /\ (pc = "physics" /\ ~isPaused =>
              /\ hist'.added = FrameTimeAdded(variant, deltaTime, timeScale)
              /\ accumulator' = Min(AfterRestartCheck(accumulator, restartTriggered)
                                      + hist'.added, maxAccum))
      ]_vars

\* a paused frame has passed its physics block with the leftover of the
\* frame before it: no step made, nothing added
C28_PausedWithLeftover ==
    /\ pc = "render"
    /\ isPaused
    /\ frame > 0
    /\ accumulator > 0
    /\ hist.added = 0
    /\ hist.frameSteps = 0
    /\ deltaTime > maxAccum

\* C29: no action of the driver changes the timestep of the simulation: the
\* timestep installed for a step is replaced by the base timestep before the
\* loop test that follows, so the base timestep a frame reads is the
\* configured one, between frames getTimeStep() is the configured timestep,
\* and every step is made with the configured timestep times the time scale
\* of the moment, never with a multiple left by an earlier step.
C29_TimestepRestored ==
    /\ [](/\ baseSimDt = simDt
          /\ (hist.steps > 0 =>
                /\ hist.stepBase = simDt
                /\ hist.stepDt = StepDt(variant, simDt, hist.stepScale)))
    /\ [][ simDt' = simDt ]_vars

\* the second frame of the driver of main.cpp has made a step at time scale 2
\* after the first made steps at time scale 1
C29_ScaledStepsInTwoFrames ==
    /\ variant = "main"
    /\ pc = "substep"
    /\ frame = 1
    /\ hist.frameSteps > 0
    /\ hist.steps > hist.frameSteps
    /\ hist.stepScale = 2
    /\ hist.stepDt = 2 * simDt

-----------------------------------------------------------------------------
(* The driver over a simulation that holds no body: a Simulation as         *)
(* constructed, before init or initRandom has filled it.                    *)

InitEmpty ==
    /\ variant \in { "main", "part006" }
    /\ pc = "input"
    /\ frame = 0
    /\ deltaTime = 0
    /\ accumulator = 0
    /\ substeps = 0
    /\ isPaused = FALSE
    /\ restartTriggered = FALSE
    /\ timeScale = 1
    /\ spaceKeyPressed = FALSE
    /\ simDt \in TimeSteps
    /\ baseSimDt = simDt
    /\ G = DefaultG
    /\ softening = DefaultSoftening
    /\ simG = DefaultG
    /\ simSoftening = DefaultSoftening
    /\ policy = "merge"
    /\ planets = << >>
    /\ bodies = Registered(planets)
    /\ fi = 0
    /\ fj = 0
    /\ toRemove = { }
    /\ input = NoInput
    /\ hist = NoHist

SpecEmpty == InitEmpty /\ [][Next]_vars

\* C17: a step over zero bodies is a no-op: it returns the simulation it was
\* given, the empty collection and every scalar parameter unchanged; the
\* driver takes baseSimDt from the accumulator for each such step and runs
\* its loop until the accumulator is below baseSimDt or the cap is reached,
\* as it does with bodies present.
C17_EmptyStepNoOp ==
    planets = << >> =>
       /\ bodies = << >>
       /\ step(Sim(StepDt(variant, baseSimDt, timeScale)))
             = Sim(StepDt(variant, baseSimDt, timeScale))
       /\ simDt = baseSimDt
       /\ accumulator = hist.credit - hist.spent
       /\ hist.spent = hist.steps * baseSimDt
       /\ (pc \in { "substep", "render" } => substeps = hist.frameSteps)
       /\ (pc = "render" /\ ~isPaused =>
             \/ hist.frameSteps = maxSubstepsPerFrame
             \/ accumulator < baseSimDt)

\* a frame made steps over zero bodies until the accumulator ran out
C17_EmptyFrameStepped ==
    /\ planets = << >>
    /\ pc = "render"
    /\ hist.frameSteps > 1
    /\ hist.frameSteps < maxSubstepsPerFrame
    /\ accumulator < baseSimDt

-----------------------------------------------------------------------------
(* One step under inspection: the caller (pc = "idle") calls step(), whose  *)
(* phases run one after the other; the force computation is followed loop   *)
(* by loop and pair by pair.                                                *)

\* the planets a step is started on: position, velocity, mass, radius
Templates ==
    { [ p |-> << 0, 0 >>,     v |-> << 0, 0 >>,  mass |-> 5, radius |-> 6 ],
      [ p |-> << 10, 0 >>,    v |-> << -8, 4 >>, mass |-> 1, radius |-> 6 ],
      [ p |-> << 0, 10 >>,    v |-> << 0, 0 >>,  mass |-> 5, radius |-> 6 ],
      [ p |-> << 0, 0 >>,     v |-> << 0, -2 >>, mass |-> 5, radius |-> 0 ] }

FromTemplate(t) ==
    [ p |-> t.p, v |-> t.v, forceAccumulator |-> Zero2, mass |-> t.mass,
      radius |-> t.radius, trail |-> << >> ]

\* the gravity slider at its largest multiplier, 5 x
StrongG == 5 * DefaultG

InitStep ==
    /\ variant = "main"
    /\ pc = "idle"
    /\ frame = 0
    /\ deltaTime = 0
    /\ accumulator = 0
    /\ substeps = 0
    /\ isPaused = FALSE
    /\ restartTriggered = FALSE
    /\ timeScale = 1
    /\ spaceKeyPressed = FALSE
    /\ simDt \in TimeSteps
    /\ baseSimDt = simDt
    /\ G = StrongG
    /\ softening = DefaultSoftening
    /\ simG = StrongG
    /\ simSoftening = DefaultSoftening
    /\ policy \in { "none", "bounce", "merge" }
    /\ \E n \in 0 .. MaxBodies :
          \E ts \in [ 1 .. n -> Templates ] :
             planets = [ k \in 1 .. n |-> FromTemplate(ts[k]) ]
    /\ bodies = Registered(planets)
    /\ fi = 0
    /\ fj = 0
    /\ toRemove = { }
    /\ input = NoInput
    /\ hist = NoHist

driverVars ==
    << variant, frame, deltaTime, accumulator, substeps, isPaused, restartTriggered,
       timeScale, spaceKeyPressed, simDt, baseSimDt, G, softening, simG,
       simSoftening, policy, input >>

\* the program position at which a phase starts
PhaseEntry(name) ==
    CASE name = "computeForces" -> "clear"
      [] name = "integrate" -> "integrate"
      [] name = "handleCollisions" -> "collide"

\* the program position after phase number k of the step
AfterPhase(k) == IF k >= Len(StepPhases) THEN "idle" ELSE PhaseEntry(StepPhases[k + 1])

\* the history after the phase in progress has completed
PhaseDone(h, name) ==
    [ h EXCEPT !.log = Append(@, name),
               !.phase = IF h.phase >= Len(StepPhases) THEN 0 ELSE @ + 1,
               !.steps = IF h.phase >= Len(StepPhases) THEN @ + 1 ELSE @ ]

\* the caller calls Simulation::step
BeginStep ==
    /\ pc = "idle"
    /\ hist.steps < MaxSteps
    /\ pc' = PhaseEntry(StepPhases[1])
    /\ hist' = [ hist EXCEPT !.log = << >>, !.phase = 1, !.pre = planets,
                             !.origin = IF hist.steps = 0 THEN planets ELSE @,
                             !.ids = Registered(planets), !.pairs = << >>,
                             !.visits = << >>, !.stepDt = simDt ]
    /\ UNCHANGED << planets, bodies, fi, fj >>
    /\ UNCHANGED driverVars
    /\ UNCHANGED toRemove

\* computeForces lines 27-29: every accumulator is cleared
ClearForces ==
    /\ pc = "clear"
    /\ planets' = ClearFrom(planets, bodies, 1)
    /\ fi' = 0
    /\ fj' = InnerStart(0)
    /\ pc' = "pairs"
    /\ UNCHANGED << bodies, hist >>
    /\ UNCHANGED driverVars
    /\ UNCHANGED toRemove

\* computeForces lines 34-50: one iteration of the inner loop
VisitPair ==
    /\ pc = "pairs"
    /\ fi < Len(bodies)
    /\ fj < Len(bodies)
    /\ planets' = ApplyPair(planets, bodies, fi, fj, simG, simSoftening)
    /\ fj' = fj + 1
    /\ hist' = [ hist EXCEPT !.visits = Append(@,
                   [ i  |-> fi, j |-> fj,
                     kept |-> /\ planets'[bodies[fi + 1]].forceAccumulator
                                    = planets[bodies[fi + 1]].forceAccumulator
                              /\ planets'[bodies[fj + 1]].forceAccumulator
                                    = planets[bodies[fj + 1]].forceAccumulator,
                     di |-> VSub(planets'[bodies[fi + 1]].forceAccumulator,
                                 planets[bodies[fi + 1]].forceAccumulator),
                     dj |-> VSub(planets'[bodies[fj + 1]].forceAccumulator,
                                 planets[bodies[fj + 1]].forceAccumulator) ]) ]
    /\ UNCHANGED << pc, bodies, fi >>
    /\ UNCHANGED driverVars
    /\ UNCHANGED toRemove

\* computeForces line 33: the inner loop is over, the outer loop advances
NextRow ==
    /\ pc = "pairs"
    /\ fi < Len(bodies)
    /\ fj >= Len(bodies)
    /\ fi' = fi + 1
    /\ fj' = InnerStart(fi + 1)
    /\ UNCHANGED << pc, planets, bodies, hist >>
    /\ UNCHANGED driverVars
    /\ UNCHANGED toRemove

\* computeForces lines 53-56: the velocities take the accumulated forces;
\* computeForces returns
IntegrateVelocities ==
    /\ pc = "pairs"
    /\ fi >= Len(bodies)
    /\ planets' = VelocitiesFrom(planets, bodies, simDt, 1)
    /\ pc' = AfterPhase(hist.phase)
    /\ hist' = PhaseDone(hist, "computeForces")
    /\ UNCHANGED << bodies, fi, fj >>
    /\ UNCHANGED driverVars
    /\ UNCHANGED toRemove

\* PhysicsEngine::integrate
Integrate ==
    /\ pc = "integrate"
    /\ planets' = integrate(planets, bodies, simDt)
    /\ pc' = AfterPhase(hist.phase)
    /\ hist' = PhaseDone(hist, "integrate")
    /\ UNCHANGED << bodies, fi, fj >>
    /\ UNCHANGED driverVars
    /\ UNCHANGED toRemove

\* Simulation::handleCollisions is entered: nothing to do without a policy,
\* else the pass over the pairs begins with nothing collected
CollideStart ==
    /\ pc = "collide"
    /\ fi' = 1
    /\ fj' = 2
    /\ toRemove' = { }
    /\ IF policy = "none"
          THEN /\ pc' = AfterPhase(hist.phase)
               /\ hist' = PhaseDone(hist, "handleCollisions")
          ELSE /\ pc' = "pass"
               /\ UNCHANGED hist
    /\ UNCHANGED << planets, bodies >>
    /\ UNCHANGED driverVars

\* the collision pass: the pair (fi, fj) is resolved
CollidePair ==
    /\ pc = "pass"
    /\ fi <= Len(planets)
    /\ fj <= Len(planets)
    /\ LET w == ResolvePair([ ps |-> planets, gone |-> toRemove ], fi, fj, policy)
       IN  /\ planets' = w.ps
           /\ toRemove' = w.gone
           /\ hist' = [ hist EXCEPT !.pairs = Append(@,
                          [ i |-> fi, j |-> fj,
                            hit |-> /\ fi \notin toRemove
                                    /\ fj \notin toRemove
                                    /\ Colliding(planets[fi], planets[fj]),
                            merged |-> w.gone # toRemove,
                            collected |-> w.gone \ toRemove,
                            bi |-> planets[fi], bj |-> planets[fj],
                            ai |-> w.ps[fi], aj |-> w.ps[fj] ]) ]
    /\ fj' = fj + 1
    /\ UNCHANGED << pc, bodies, fi >>
    /\ UNCHANGED driverVars

\* the collision pass: the inner loop is over, the outer loop advances
CollideNextRow ==
    /\ pc = "pass"
    /\ fi <= Len(planets)
    /\ fj > Len(planets)
    /\ fi' = fi + 1
    /\ fj' = fi + 2
    /\ UNCHANGED << pc, planets, bodies, toRemove, hist >>
    /\ UNCHANGED driverVars

\* the pass is over: the erasures begin
CollideEndPass ==
    /\ pc = "pass"
    /\ fi > Len(planets)
    /\ pc' = "erase"
    /\ UNCHANGED << planets, bodies, fi, fj, toRemove, hist >>
    /\ UNCHANGED driverVars

\* one collected body is erased from the collection
EraseOne ==
    /\ pc = "erase"
    /\ toRemove # { }
    /\ LET k == NextErased(toRemove)
       IN  /\ planets' = Erase(planets, k)
           /\ toRemove' = toRemove \ { k }
           /\ hist' = [ hist EXCEPT !.ids = Erase(@, k) ]
    /\ UNCHANGED << pc, bodies, fi, fj >>
    /\ UNCHANGED driverVars

\* every collected body is erased: the registry is rebuilt and
\* handleCollisions returns
CollideDone ==
    /\ pc = "erase"
    /\ toRemove = { }
    /\ bodies' = Registered(planets)
    /\ pc' = AfterPhase(hist.phase)
    /\ hist' = PhaseDone(hist, "handleCollisions")
    /\ UNCHANGED << planets, fi, fj, toRemove >>
    /\ UNCHANGED driverVars

NextStep ==
    \/ BeginStep
    \/ ClearForces
    \/ VisitPair
    \/ NextRow
    \/ IntegrateVelocities
    \/ Integrate
    \/ CollideStart
    \/ CollidePair
    \/ CollideNextRow
    \/ CollideEndPass
    \/ EraseOne
    \/ CollideDone

SpecStep == InitStep /\ [][NextStep]_vars

-----------------------------------------------------------------------------
(* The step on edge inputs: a softening of zero, bodies at the same         *)
(* position, bodies of mass zero (Planet::setMass accepts any value).       *)

EdgeTemplates ==
    { [ p |-> << 0, 0 >>,  v |-> << 2, 0 >>,  mass |-> 0, radius |-> 2 ],
      [ p |-> << 0, 0 >>,  v |-> << 0, 0 >>,  mass |-> 5, radius |-> 2 ],
      [ p |-> << 30, 0 >>, v |-> << 0, 0 >>,  mass |-> 5, radius |-> 2 ],
      [ p |-> << 0, 30 >>, v |-> << 0, -2 >>, mass |-> 1, radius |-> 2 ] }

InitEdge ==
    /\ variant = "main"
    /\ pc = "idle"
    /\ frame = 0
    /\ deltaTime = 0
    /\ accumulator = 0
    /\ substeps = 0
    /\ isPaused = FALSE
    /\ restartTriggered = FALSE
    /\ timeScale = 1
    /\ spaceKeyPressed = FALSE
    /\ simDt = ProgramTimeStep
    /\ baseSimDt = simDt
    /\ G = StrongG
    /\ softening \in { 0, DefaultSoftening }
    /\ simG = G
    /\ simSoftening = softening
    /\ policy \in { "none", "bounce", "merge" }
    /\ \E n \in 0 .. MaxBodies :
          \E ts \in [ 1 .. n -> EdgeTemplates ] :
             planets = [ k \in 1 .. n |-> FromTemplate(ts[k]) ]
    /\ bodies = Registered(planets)
    /\ fi = 0
    /\ fj = 0
    /\ toRemove = { }
    /\ input = NoInput
    /\ hist = NoHist

SpecEdge == InitEdge /\ [][NextStep]_vars

-----------------------------------------------------------------------------
(* Properties of one step (specification SpecStep).                         *)

\* the phases of the step in progress / of the latest step that are complete
Done(name) == \E k \in 1 .. Len(hist.log) : hist.log[k] = name

\* the collision handling of the step in progress has not begun
CollisionsAhead == ~Done("handleCollisions") /\ pc \notin { "pass", "erase" }

\* the net gravitational force on body k of the planets ps, summed body by
\* body from the positions and masses of ps
RECURSIVE ForceFrom(_, _, _)
ForceFrom(ps, k, o) ==
    IF o > Len(ps) THEN Zero2
    ELSE VAdd(IF o = k THEN Zero2
              ELSE IF o > k THEN PairForce(ps[k], ps[o], simG, simSoftening)
              ELSE VNeg(PairForce(ps[o], ps[k], simG, simSoftening)),
              ForceFrom(ps, k, o + 1))

NetForce(ps, k) == ForceFrom(ps, k, 1)

\* the velocity of body k after the step that began on the planets ps
KickedVelocity(ps, k) ==
    VAdd(ps[k].v, VTimesDt(VDiv(NetForce(ps, k), ps[k].mass), simDt))

IsPrefix(a, b) == Len(a) <= Len(b) /\ \A k \in 1 .. Len(a) : a[k] = b[k]

\* the sum over the bodies k, k+1, ... of ps of the vectors f(body)
RECURSIVE SumFrom(_, _, _)
SumFrom(ps, f(_), k) ==
    IF k > Len(ps) THEN Zero2 ELSE VAdd(f(ps[k]), SumFrom(ps, f, k + 1))

MomentumOf(b) == << b.mass * b.v[1], b.mass * b.v[2] >>

ForceOf(b) == b.forceAccumulator

\* total momentum: the sum over the bodies of mass times velocity
Momentum(ps) == SumFrom(ps, MomentumOf, 1)

\* the rounding of one velocity update: the two truncating divisions of
\* integrateVelocity lose less than mass * (dt / TicksPerUnit + 1) of the
\* momentum of a body, in each component
RoundingOf(b) == << b.mass * (simDt + TicksPerUnit), b.mass * (simDt + TicksPerUnit) >>

\* a and b differ by at most tol / TicksPerUnit in each component
Within(a, b, tol) ==
    /\ TicksPerUnit * Abs(a[1] - b[1]) <= tol[1]
    /\ TicksPerUnit * Abs(a[2] - b[2]) <= tol[2]

\* the velocity updates made since the first step began
Kicks == hist.steps + (IF pc # "idle" /\ Done("computeForces") THEN 1 ELSE 0)

\* C11: the accumulated forces of one force computation sum to the zero
\* vector over all bodies, so the total momentum after the velocity update
\* and the integration of a step is that before the step, and with no
\* collision handling it is that before the first step after any number of
\* steps, to within the rounding of the velocity updates made.
C11_MomentumConserved ==
    /\ (Done("computeForces") /\ CollisionsAhead =>
          /\ SumFrom(planets, ForceOf, 1) = Zero2
          /\ Within(Momentum(planets), Momentum(hist.pre),
                    SumFrom(hist.pre, RoundingOf, 1)))
    /\ (policy = "none" /\ hist.origin # << >> =>
          /\ Len(planets) = Len(hist.origin)
          /\ Within(Momentum(planets), Momentum(hist.origin),
                    << Kicks * SumFrom(hist.origin, RoundingOf, 1)[1],
                       Kicks * SumFrom(hist.origin, RoundingOf, 1)[2] >>))

\* two steps without collision handling, in which forces changed velocities
C11_TwoStepsOfForces ==
    /\ policy = "none"
    /\ pc = "idle"
    /\ hist.steps = 2
    /\ Len(planets) = 3
    /\ \A k \in 1 .. 3 : planets[k].v # hist.origin[k].v
    /\ Momentum(hist.origin) # Zero2

\* C6: a step runs the force computation, the integration and the collision
\* handling in this order, each phase once, and the caller has control only
\* before the first and after the last phase; what the caller finds is the
\* result of the three phases applied to what it passed.
C6_StepPhases ==
    /\ IsPrefix(hist.log, << "computeForces", "integrate", "handleCollisions" >>)
    /\ (pc = "idle" /\ hist.steps > 0 =>
          /\ hist.log = << "computeForces", "integrate", "handleCollisions" >>
          /\ planets = handleCollisions(
                          integrate(
                             computeForces(hist.pre, Registered(hist.pre), simDt,
                                           simG, simSoftening),
                             Registered(hist.pre), simDt),
                          policy))
    /\ (pc # "idle" => Len(hist.log) < 3)

\* a step that moved something has returned to its caller
C6_StepReturned ==
    /\ pc = "idle"
    /\ hist.steps > 0
    /\ Len(hist.pre) >= 2
    /\ \E k \in 1 .. Len(hist.pre) : hist.pre[k].p # planets[k].p

\* C7: within a step the velocity of every body is updated from the forces
\* before the position of any body is updated, and every position advances
\* with the velocity the step has just computed.
C7_VelocityThenPosition ==
    /\ (Done("computeForces") /\ ~Done("integrate") =>
          \A k \in 1 .. Len(planets) :
             /\ planets[k].v = KickedVelocity(hist.pre, k)
             /\ planets[k].p = hist.pre[k].p)
    /\ (Done("integrate") /\ CollisionsAhead =>
          \A k \in 1 .. Len(planets) :
             /\ planets[k].v = KickedVelocity(hist.pre, k)
             /\ planets[k].p = VAdd(hist.pre[k].p, VTimesDt(planets[k].v, simDt)))
    /\ (~Done("computeForces") /\ pc # "idle" =>
          \A k \in 1 .. Len(planets) : planets[k].p = hist.pre[k].p)

\* a position was advanced to where only the updated velocity takes it
C7_UpdatedVelocityUsed ==
    /\ pc = "collide"
    /\ \E k \in 1 .. Len(planets) :
          /\ planets[k].v # hist.pre[k].v
          /\ planets[k].p # VAdd(hist.pre[k].p, VTimesDt(hist.pre[k].v, simDt))
          /\ planets[k].p = VAdd(hist.pre[k].p, VTimesDt(planets[k].v, simDt))

\* C8: every force computation starts from accumulators of zero: when the
\* pair loop begins every accumulator is zero, and when the computation is
\* complete every accumulator holds the net force of this step only, whatever
\* it held before.
C8_ForcesReset ==
    /\ (pc = "pairs" /\ hist.visits = << >> =>
          \A k \in 1 .. Len(planets) : planets[k].forceAccumulator = Zero2)
    /\ (Done("computeForces") /\ CollisionsAhead =>
          \A k \in 1 .. Len(planets) :
             planets[k].forceAccumulator = NetForce(hist.pre, k))

\* a step began with a force left by the step before and computed another
C8_StaleForceReplaced ==
    /\ pc = "integrate"
    /\ hist.steps = 1
    /\ \E k \in 1 .. Len(planets) :
          /\ hist.pre[k].forceAccumulator # Zero2
          /\ planets[k].forceAccumulator # Zero2
          /\ planets[k].forceAccumulator # hist.pre[k].forceAccumulator

\* the number of unordered pairs of n bodies
PairCount(n) == (n * (n - 1)) \div 2

\* C9: the force computation visits each unordered pair of bodies once, as
\* (i, j) with i < j, n(n-1)/2 visits for n bodies; a visit adds a force F to
\* body i and -F to body j, F being the force between the two.
C9_PairsOnce ==
    LET n == Len(hist.pre)
        vs == hist.visits
    IN  /\ \A a \in 1 .. Len(vs) :
              /\ 0 <= vs[a].i /\ vs[a].i < vs[a].j /\ vs[a].j < n
              /\ vs[a].dj = VNeg(vs[a].di)
              /\ vs[a].di = PairForce(hist.pre[vs[a].i + 1], hist.pre[vs[a].j + 1],
                                      simG, simSoftening)
              /\ \A b \in 1 .. Len(vs) :
                    (vs[a].i = vs[b].i /\ vs[a].j = vs[b].j) => a = b
        /\ (Done("computeForces") =>
              /\ Len(vs) = PairCount(n)
              /\ \A i \in 0 .. n - 1 : \A j \in i + 1 .. n - 1 :
                    \E a \in 1 .. Len(vs) : vs[a].i = i /\ vs[a].j = j)

\* three bodies, three visits, each with a force and its opposite
C9_ThreePairs ==
    /\ Done("computeForces")
    /\ Len(hist.pre) = 3
    /\ Len(hist.visits) = 3
    /\ \A a \in 1 .. 3 : hist.visits[a].di # Zero2

\* C10 as stated: the force computation changes neither the position nor the
\* velocity of any body.
C10_ForcesOnly ==
    hist.log = << "computeForces" >> =>
       \A k \in 1 .. Len(planets) :
          /\ planets[k].p = hist.pre[k].p
          /\ planets[k].v = hist.pre[k].v

\* C10 amended: the force computation changes no position, mass, radius or
\* trail; it leaves every velocity alone while it accumulates the forces and,
\* before it returns, adds to every velocity the accumulated force divided by
\* the mass and multiplied by the timestep.
C10_ForcesThenVelocities ==
    /\ (pc \in { "clear", "pairs" } =>
          \A k \in 1 .. Len(planets) :
             /\ planets[k].p = hist.pre[k].p
             /\ planets[k].v = hist.pre[k].v
             /\ planets[k].mass = hist.pre[k].mass
             /\ planets[k].radius = hist.pre[k].radius
             /\ planets[k].trail = hist.pre[k].trail)
    /\ (hist.log = << "computeForces" >> =>
          \A k \in 1 .. Len(planets) :
             /\ planets[k].p = hist.pre[k].p
             /\ planets[k].mass = hist.pre[k].mass
             /\ planets[k].radius = hist.pre[k].radius
             /\ planets[k].trail = hist.pre[k].trail
             /\ planets[k].v =
                   VAdd(hist.pre[k].v,
                        VTimesDt(VDiv(planets[k].forceAccumulator, planets[k].mass),
                                 simDt)))

\* the force computation has returned with a velocity changed
C10_VelocityChanged ==
    /\ hist.log = << "computeForces" >>
    /\ \E k \in 1 .. Len(planets) :
          /\ planets[k].v # hist.pre[k].v
          /\ planets[k].forceAccumulator # Zero2

\* the orders in which n registered bodies can be visited
Orders(n) == { f \in [ 1 .. n -> 1 .. n ] : \A a, b \in 1 .. n : f[a] = f[b] => a = b }

\* the trail tr after one more recording of the position q
Recorded(tr, q) ==
    Append(IF Len(tr) >= maxTrailLength THEN Tail(tr) ELSE tr, q)

\* C16: in one step every body present when the step began has its velocity
\* updated once, its position updated once and one trail sample recorded, the
\* new position; and the loops that update the velocities and the positions
\* give the same planets in whatever order they visit the bodies.
C16_EachBodyOnce ==
    Done("integrate") /\ CollisionsAhead =>
       /\ Len(planets) = Len(hist.pre)
       /\ Len(bodies) = Len(hist.pre)
       /\ \A k \in 1 .. Len(hist.pre) :
             /\ \E a \in 1 .. Len(bodies) : bodies[a] = k
             /\ planets[k].v = KickedVelocity(hist.pre, k)
             /\ planets[k].p = VAdd(hist.pre[k].p, VTimesDt(planets[k].v, simDt))
             /\ planets[k].trail = Recorded(hist.pre[k].trail, planets[k].p)
       /\ \A o \in Orders(Len(hist.pre)) :
             planets = integrate(computeForces(hist.pre, o, simDt, simG, simSoftening),
                                 o, simDt)

\* a second step has moved three moving bodies and recorded their positions
C16_ThreeBodiesMoved ==
    /\ pc = "collide"
    /\ hist.steps = 1
    /\ Len(hist.pre) = 3
    /\ \A k \in 1 .. 3 :
          /\ planets[k].p # hist.pre[k].p
          /\ planets[k].v # hist.pre[k].v
          /\ Len(planets[k].trail) = Len(hist.pre[k].trail) + 1
    /\ \E k \in 1 .. 3 : Len(planets[k].trail) >= 2

\* the pairs merged by the collision pass in progress / the latest
MergedPairs == { a \in 1 .. Len(hist.pairs) : hist.pairs[a].merged }

\* the indices collected by these merges
Collected == UNION { hist.pairs[a].collected : a \in 1 .. Len(hist.pairs) }

\* the indices 1 .. n without those in gone, in ascending order
RECURSIVE Survivors(_, _, _)
Survivors(n, gone, k) ==
    IF k > n THEN << >>
    ELSE (IF k \in gone THEN << >> ELSE << k >>) \o Survivors(n, gone, k + 1)

\* C18: the number of bodies never increases; within a step it changes only
\* by the erasures that follow the collision pass, one body per merge of the
\* pass; a step without a merge leaves the number of the bodies and their
\* order unchanged, and the bodies that remain after a merge keep theirs.
C18_BodiesOnlyMerge ==
    /\ (hist.origin # << >> => Len(planets) <= Len(hist.origin))
    /\ (pc \notin { "idle", "erase" } =>
          Len(planets) = Len(hist.pre) /\ hist.ids = Registered(hist.pre))
    /\ (pc = "erase" =>
          /\ Cardinality(Collected) = Cardinality(MergedPairs)
          /\ Len(planets) = Len(hist.pre) - Cardinality(Collected \ toRemove))
    /\ (pc = "idle" /\ hist.steps > 0 =>
          /\ Len(planets) = Len(hist.pre) - Cardinality(MergedPairs)
          /\ Len(hist.ids) = Len(planets)
          /\ \A a, b \in 1 .. Len(hist.ids) : a < b => hist.ids[a] < hist.ids[b]
          /\ (MergedPairs = { } =>
                /\ hist.ids = Registered(hist.pre)
                /\ \A k \in 1 .. Len(planets) :
                      /\ planets[k].mass = hist.pre[k].mass
                      /\ planets[k].radius = hist.pre[k].radius))
    /\ (policy # "merge" => MergedPairs = { })

\* a step with one merge has left two of three bodies, the first and the
\* third, in their order
C18_OneMergeOfThree ==
    /\ pc = "idle"
    /\ hist.steps > 0
    /\ Len(hist.pre) = 3
    /\ Cardinality(MergedPairs) = 1
    /\ Len(planets) = 2
    /\ hist.ids = << 1, 3 >>

\* the relative speed of the pair before it was resolved
RelSpeed(c) == Length(VSub(c.bj.v, c.bi.v))

\* the velocity of b relative to a along the collision normal of the pair as
\* it was before it was resolved, at the scale DirScale
Closing(c, a, b) == Dot(VSub(b.v, a.v), Normal(c.bi, c.bj))

\* C19: under the merge policy a colliding pair with relative speed below
\* the merge threshold becomes one body, with the sum of the two masses, and
\* the other body is collected for erasure; a colliding pair at or above the
\* threshold keeps both bodies and their masses, and its velocities receive
\* the impulse response: unchanged if the pair is separating, else changed
\* along the normal so that the pair approaches no faster than before, with
\* the momentum of the pair kept; a pair not in collision is left as it was.
C19_MergeOrBounce ==
    /\ policy = "merge" =>
          \A a \in 1 .. Len(hist.pairs) :
             LET c == hist.pairs[a]
             IN  IF ~c.hit THEN ~c.merged /\ c.ai = c.bi /\ c.aj = c.bj
                 ELSE IF RelSpeed(c) < MergeThreshold
                 THEN /\ c.merged
                      /\ c.collected = { c.j }
                      /\ c.ai.mass = c.bi.mass + c.bj.mass
                 ELSE /\ ~c.merged
                      /\ c.ai.mass = c.bi.mass
                      /\ c.aj.mass = c.bj.mass
                      /\ (Closing(c, c.bi, c.bj) >= 0 =>
                            c.ai.v = c.bi.v /\ c.aj.v = c.bj.v)
                      /\ Closing(c, c.ai, c.aj) >= Closing(c, c.bi, c.bj)
    /\ (policy = "merge" /\ pc = "idle" /\ hist.steps > 0 =>
          Len(planets) = Len(hist.pre) - Cardinality(MergedPairs))

\* a pass under the merge policy that merged one pair and bounced another
C19_MergedAndBounced ==
    /\ policy = "merge"
    /\ pc = "idle"
    /\ \E a, b \in 1 .. Len(hist.pairs) :
          /\ hist.pairs[a].hit /\ hist.pairs[a].merged
          /\ hist.pairs[a].ai.mass = hist.pairs[a].bi.mass + hist.pairs[a].bj.mass
          /\ hist.pairs[b].hit /\ ~hist.pairs[b].merged
          /\ RelSpeed(hist.pairs[b]) >= MergeThreshold
          /\ hist.pairs[b].ai.v # hist.pairs[b].bi.v
          /\ hist.pairs[b].aj.v # hist.pairs[b].bj.v

\* C20: no body is erased while the collision pass iterates: during the pass
\* every index refers to the body it referred to when the pass began; the
\* absorbed bodies are collected and erased after the pass, largest index
\* first, so every collected index still refers to its body when it is erased,
\* and the bodies left are those that were not absorbed, in their order.
C20_EraseAfterPass ==
    /\ (pc = "pass" =>
          /\ Len(planets) = Len(hist.pre)
          /\ hist.ids = Registered(hist.pre)
          /\ toRemove = Collected)
    /\ (pc = "erase" =>
          /\ toRemove \subseteq Collected
          /\ \A k \in toRemove : k <= Len(planets) /\ hist.ids[k] = k
          /\ hist.ids = Survivors(Len(hist.pre), Collected \ toRemove, 1))
    /\ (pc = "idle" /\ hist.steps > 0 /\ policy # "none" =>
          hist.ids = Survivors(Len(hist.pre), Collected, 1))

\* two bodies were collected by one pass; the larger index has been erased
\* and the smaller still refers to its body
C20_SecondErasureAhead ==
    /\ pc = "erase"
    /\ Collected = { 2, 3 }
    /\ toRemove = { 2 }
    /\ hist.ids = << 1, 2 >>

\* the centres of a and b are further apart than the sum of the radii
Apart(a, b) ==
    LET d == Length(VSub(b.p, a.p))
    IN  ~IsNaN(d) /\ d > a.radius + b.radius

\* C21: the collision pass, under the bounce and the merge policy, leaves the
\* collection as it is when it handles a pair of bodies whose centres are
\* further apart than the sum of their radii: no position, velocity or mass
\* changes and no body is collected on account of that pair.
C21_ApartPairUntouched ==
    [][ (/\ pc = "pass"
         /\ fi <= Len(planets)
         /\ fj <= Len(planets)
         /\ Apart(planets[fi], planets[fj]))
        => /\ planets' = planets
           /\ toRemove' = toRemove
           /\ Len(hist'.pairs) = Len(hist.pairs) + 1
           /\ ~hist'.pairs[Len(hist'.pairs)].hit ]_vars

\* a pass under the merge policy has handled a pair of bodies apart, which it
\* left as they were, and a pair in collision, which it changed
C21_ApartPairPassed ==
    /\ policy = "merge"
    /\ pc = "erase"
    /\ \E a, b \in 1 .. Len(hist.pairs) :
          /\ Apart(hist.pairs[a].bi, hist.pairs[a].bj)
          /\ hist.pairs[a].ai = hist.pairs[a].bi
          /\ hist.pairs[a].aj = hist.pairs[a].bj
          /\ hist.pairs[b].hit
          /\ hist.pairs[b].ai # hist.pairs[b].bi

\* the planets after n calls of step() on the planets ps, with the timestep,
\* the gravity parameters and the collision policy of the simulation
RECURSIVE StepsFrom(_, _)
StepsFrom(ps, n) ==
    IF n = 0 THEN ps
    ELSE StepsFrom(step([ planets |-> ps, bodies |-> Registered(ps), dt |-> simDt,
                          G |-> simG, softening |-> simSoftening,
                          policy |-> policy ]).planets, n - 1)

-----------------------------------------------------------------------------
(* Simulation::init called on a simulation in use: from any planets, after  *)
(* any number of updates, and more than once.                               *)

\* Simulation::update, called between steps
CallUpdate ==
    /\ pc \in { "idle", "fresh" }
    /\ hist.steps < MaxSteps
    /\ LET s == update(Engine(simDt))
       IN  /\ planets' = s.planets
           /\ bodies' = s.bodies
    /\ pc' = "idle"
    /\ hist' = [ hist EXCEPT !.steps = @ + 1, !.pre = planets, !.stepG = simG,
                             !.stepSoftening = simSoftening ]
    /\ UNCHANGED << fi, fj, toRemove >>
    /\ UNCHANGED driverVars

\* Simulation::init: the planets are cleared and the two planets emplaced,
\* then the registry is cleared and every planet added to it
CallInit ==
    /\ pc \in { "idle", "fresh" }
    /\ hist.inits < MaxInits
    /\ planets' = init
    /\ bodies' = AddBodiesFrom(clearBodies(bodies), planets', 1)
    /\ pc' = "fresh"
    /\ hist' = [ hist EXCEPT !.inits = @ + 1, !.pre = planets ]
    /\ UNCHANGED << fi, fj, toRemove >>
    /\ UNCHANGED driverVars

NextInit ==
    \/ CallUpdate
    \/ CallInit

SpecInit == InitStep /\ [][NextInit]_vars

\* C24: when Simulation::init returns, whatever the planets were and however
\* often init was called before, there are exactly two planets, of mass 5, at
\* rest at (-0.5, 0) and (0.5, 0), with no force accumulated and empty
\* trails, and the registry holds exactly these two, each once; a second
\* init in a row gives the same again.
C24_InitRebuilds ==
    pc = "fresh" =>
       /\ Len(planets) = 2
       /\ planets[1].p = << -(LengthUnit \div 2), 0 >>
       /\ planets[2].p = << LengthUnit \div 2, 0 >>
       /\ \A k \in 1 .. 2 :
             /\ planets[k].mass = 5
             /\ planets[k].v = << 0, 0 >>
             /\ planets[k].forceAccumulator = << 0, 0 >>
             /\ planets[k].trail = << >>
       /\ Len(bodies) = 2
       /\ \A k \in 1 .. 2 : Cardinality({ a \in 1 .. Len(bodies) : bodies[a] = k }) = 1

\* the second init has returned; since the first the two planets had
\* accumulated forces and recorded their trails
C24_SecondInitAfterUpdates ==
    /\ pc = "fresh"
    /\ hist.inits = 2
    /\ hist.steps = MaxSteps
    /\ Len(hist.pre) = 2
    /\ Len(hist.pre[1].trail) = MaxSteps
    /\ hist.pre[1].forceAccumulator # << 0, 0 >>
    /\ hist.pre # planets

-----------------------------------------------------------------------------
(* The gravity parameters: Simulation::setGravityParams between updates.    *)

\* the values the Gravity and Softening controls of the GUI are set to
GravityChoices == { DefaultG, StrongG }

SofteningChoices == { DefaultSoftening, 2 * DefaultSoftening }

\* main() line 34 has called sim.setGravityParams(0.05f, 0.02f); the members
\* of PhysicsEngine have their initialisers
InitGravity ==
    /\ variant = "main"
    /\ pc = "idle"
    /\ frame = 0
    /\ deltaTime = 0
    /\ accumulator = 0
    /\ substeps = 0
    /\ isPaused = FALSE
    /\ restartTriggered = FALSE
    /\ timeScale = 1
    /\ spaceKeyPressed = FALSE
    /\ simDt = ProgramTimeStep
    /\ baseSimDt = simDt
    /\ G = DefaultG
    /\ softening = DefaultSoftening
    /\ simG = DefaultG
    /\ simSoftening = DefaultSoftening
    /\ policy = "none"
    /\ \E n \in 0 .. MaxBodies :
          \E ts \in [ 1 .. n -> Templates ] :
             planets = [ k \in 1 .. n |-> FromTemplate(ts[k]) ]
    /\ bodies = Registered(planets)
    /\ fi = 0
    /\ fj = 0
    /\ toRemove = { }
    /\ input = NoInput
    /\ hist = NoHist

\* Simulation::setGravityParams(g, eps): G = g; softening = eps;
SetGravityParams ==
    /\ pc = "idle"
    /\ \E g \in GravityChoices, eps \in SofteningChoices :
          /\ << g, eps >> # << simG, simSoftening >>
          /\ simG' = g
          /\ simSoftening' = eps
    /\ UNCHANGED << variant, pc, frame, deltaTime, accumulator, substeps, isPaused,
                    restartTriggered, timeScale, spaceKeyPressed, simDt, baseSimDt,
                    G, softening, policy, planets, bodies, fi, fj, toRemove, input,
                    hist >>

NextGravity ==
    \/ SetGravityParams
    \/ CallUpdate

SpecGravity == InitGravity /\ [][NextGravity]_vars

\* the planets after one update() of the planets ps with the gravitational
\* constant g and the softening length eps
UpdatedWith(ps, g, eps) ==
    integrate(computeForces(ps, Registered(ps), simDt, g, eps), Registered(ps), simDt)

\* C25: the force computation of every update made after
\* Simulation::setGravityParams(g, eps) uses g and eps: the planets an update
\* leaves are those computed with the values set last.
C25_SetParamsUsed ==
    pc = "idle" /\ hist.steps > 0 =>
       planets = UpdatedWith(hist.pre, hist.stepG, hist.stepSoftening)

\* an update after setGravityParams with a larger constant has left the
\* planets computed with the initialisers of PhysicsEngine, which are not
\* those computed with the values set
C25_EngineDefaultsUsed ==
    /\ pc = "idle"
    /\ hist.steps > 0
    /\ hist.stepG = StrongG
    /\ G = DefaultG
    /\ planets = UpdatedWith(hist.pre, G, softening)
    /\ planets # UpdatedWith(hist.pre, hist.stepG, hist.stepSoftening)

-----------------------------------------------------------------------------
(* The trail of a planet: positions are recorded by PhysicsEngine::integrate *)
(* (one recordPosition per body and call) and the trails are cleared by     *)
(* clearTrail, here after a few recordings, with the trail just full, and   *)
(* with the trail evicting.                                                 *)

TrailTemplates ==
    << [ p |-> << 0, 0 >>, v |-> << 8, 0 >>,  mass |-> 1, radius |-> 1 ],
       [ p |-> << 0, 9 >>, v |-> << 0, -8 >>, mass |-> 5, radius |-> 1 ] >>

\* the recordings since the latest clearTrail after which clearTrail is called
ClearAfter == { 2, maxTrailLength, maxTrailLength + 2 }

InitTrail ==
    /\ variant = "main"
    /\ pc = "trail"
    /\ frame = 0
    /\ deltaTime = 0
    /\ accumulator = 0
    /\ substeps = 0
    /\ isPaused = FALSE
    /\ restartTriggered = FALSE
    /\ timeScale = 1
    /\ spaceKeyPressed = FALSE
    /\ simDt = ProgramTimeStep
    /\ baseSimDt = simDt
    /\ G = DefaultG
    /\ softening = DefaultSoftening
    /\ simG = G
    /\ simSoftening = softening
    /\ policy = "none"
    /\ planets = [ k \in 1 .. 2 |-> FromTemplate(TrailTemplates[k]) ]
    /\ bodies = Registered(planets)
    /\ fi = 0
    /\ fj = 0
    /\ toRemove = { }
    /\ input = NoInput
    /\ hist = [ NoHist EXCEPT !.samples = << << >>, << >> >> ]

\* PhysicsEngine::integrate: every body moves and records its position
TrailRecord ==
    /\ pc = "trail"
    /\ \A k \in 1 .. Len(planets) : Len(hist.samples[k]) < MaxRecordings
    /\ planets' = integrate(planets, bodies, simDt)
    /\ hist' = [ hist EXCEPT
                   !.steps = @ + 1,
                   !.samples = [ k \in 1 .. Len(planets) |->
                                   Append(hist.samples[k], planets'[k].p) ] ]
    /\ UNCHANGED << pc, bodies, fi, fj >>
    /\ UNCHANGED driverVars
    /\ UNCHANGED toRemove

\* for (auto &p : sim.getPlanets()) p.clearTrail();
TrailClear ==
    /\ pc = "trail"
    /\ hist.clears < MaxClears
    /\ Len(hist.samples[1]) \in ClearAfter
    /\ planets' = ClearTrails(planets)
    /\ hist' = [ hist EXCEPT
                   !.clears = @ + 1,
                   !.samples = [ k \in 1 .. Len(planets) |-> << >> ] ]
    /\ UNCHANGED << pc, bodies, fi, fj >>
    /\ UNCHANGED driverVars
    /\ UNCHANGED toRemove

NextTrail ==
    \/ TrailRecord
    \/ TrailClear

SpecTrail == InitTrail /\ [][NextTrail]_vars

-----------------------------------------------------------------------------
(* Properties of the trail (specification SpecTrail).                       *)

\* C14: after any sequence of recordPosition and clearTrail calls the trail
\* of every body holds at most maxTrailLength (1000) positions.
C14_TrailCapped ==
    \A k \in 1 .. Len(planets) : Len(planets[k].trail) <= maxTrailLength

\* a full trail has recorded further positions, after a clearTrail
C14_FullTrailRecorded ==
    /\ hist.clears > 0
    /\ \A k \in 1 .. Len(planets) :
          /\ Len(hist.samples[k]) > maxTrailLength + 1
          /\ Len(planets[k].trail) = maxTrailLength

\* C15: the trail is the FIFO of the latest positions: after N recordings
\* with no clearTrail in between it holds the latest min(N, 1000) of them,
\* oldest first; for N > 1000 these are exactly 1000, the oldest is recording
\* number N - 1000 (counted from 0) and the newest is the last position
\* recorded, the position of the body.
C15_TrailFifo ==
    \A k \in 1 .. Len(planets) :
       LET N  == Len(hist.samples[k])
           tr == planets[k].trail
       IN  /\ (N <= maxTrailLength => tr = hist.samples[k])
           /\ (N > maxTrailLength =>
                 /\ Len(tr) = maxTrailLength
                 /\ tr = SubSeq(hist.samples[k], N - maxTrailLength + 1, N)
                 /\ tr[1] = hist.samples[k][(N - maxTrailLength) + 1]
                 /\ tr[maxTrailLength] = planets[k].p)

\* 1003 recordings: the three oldest positions have left the trail
C15_ThreeEvicted ==
    \A k \in 1 .. Len(planets) :
       /\ Len(hist.samples[k]) = maxTrailLength + 3
       /\ planets[k].trail[1] = hist.samples[k][4]
       /\ planets[k].trail[1] # hist.samples[k][1]
       /\ planets[k].trail[maxTrailLength] = hist.samples[k][maxTrailLength + 3]

-----------------------------------------------------------------------------
(* Properties of the step on edge inputs (specification SpecEdge).          *)

IsFinite(a) == ~IsNaN(a[1]) /\ ~IsNaN(a[2])

\* the visit vs is of a pair at one finite position, with a softening of zero
ZeroDenominator(vs) ==
    /\ simSoftening = 0
    /\ IsFinite(hist.pre[vs.i + 1].p)
    /\ hist.pre[vs.i + 1].p = hist.pre[vs.j + 1].p

\* C12: a pair whose softened squared distance is zero (softening 0, the two
\* bodies at the same position) is skipped: the visit changes the accumulated
\* force of neither body, so nothing is divided by zero; the pass still
\* visits every pair, and every other pair receives its force.
C12_ZeroDenominatorSkipped ==
    /\ \A a \in 1 .. Len(hist.visits) :
          LET vs == hist.visits[a]
          IN  IF ZeroDenominator(vs) THEN vs.kept
              ELSE IsFinite(hist.pre[vs.i + 1].p) /\ IsFinite(hist.pre[vs.j + 1].p)
                   /\ IsFinite(vs.di) =>
                      /\ vs.di = PairForce(hist.pre[vs.i + 1], hist.pre[vs.j + 1],
                                           simG, simSoftening)
                      /\ vs.dj = VNeg(vs.di)
    /\ (Done("computeForces") => Len(hist.visits) = PairCount(Len(hist.pre)))

\* a pass that skipped one pair and gave another pair its force
C12_SkippedAndProcessed ==
    /\ Done("computeForces")
    /\ \E a, b \in 1 .. Len(hist.visits) :
          /\ ZeroDenominator(hist.visits[a])
          /\ hist.visits[a].kept
          /\ hist.pre[hist.visits[a].i + 1].mass > 0
          /\ hist.pre[hist.visits[a].j + 1].mass > 0
          /\ a < b
          /\ ~ZeroDenominator(hist.visits[b])
          /\ IsFinite(hist.visits[b].di)
          /\ hist.visits[b].di # Zero2

\* C13 as stated: with a body of mass 0 in the collection a step divides
\* nothing by zero and leaves no NaN or infinite value in a velocity or a
\* position.
C13_MasslessBodyFinite ==
    \A k \in 1 .. Len(planets) : IsFinite(planets[k].v) /\ IsFinite(planets[k].p)

\* a step over a single body of mass 0 has left NaN in its velocity and in
\* its position
C13_MasslessBodyNaN ==
    /\ pc = "idle"
    /\ hist.steps = 1
    /\ Len(hist.pre) = 1
    /\ hist.pre[1].mass = 0
    /\ IsFinite(hist.pre[1].v) /\ IsFinite(hist.pre[1].p)
    /\ ~IsFinite(planets[1].v)
    /\ ~IsFinite(planets[1].p)

-----------------------------------------------------------------------------
(* The mouse block of main(), lines 87-147: double-click to follow a planet. *)
(* The camera rests at the origin with zoom 1; the cursor is on the middle   *)
(* row of the window, so a world point is its x at the scale LengthUnit.     *)

\* durations of a frame in ticks: 0.1 s and 0.325 s
ClickFrameTimes == { 400, 1300 }

\* glfwGetTime() when the loop is entered, in ticks
StartTimes == { 0, 2000 }

\* cursor columns inside the simulation pane, in pixels
ClickXs == { 400, 700, 1100 }

\* the world x of the pixel column x of a pane that begins at the column left
\* (lines 103-111: xNorm, ndcX, worldPos)
ScreenToWorld(x, left) == Quot((x - left) * 2 * LengthUnit, WinW - left) - LengthUnit

\* lines 103-111: the click handler takes the pane to begin at the panel width
HandlerWorld(x) == << ScreenToWorld(x, PANEL_WIDTH), 0 >>

\* lines 69-72: the pane the planets are drawn in begins at the panel width
\* if the panel is visible and at the left edge of the window if not
ViewportLeft(visible) == IF visible THEN PANEL_WIDTH ELSE 0

\* the world point drawn under the cursor (glViewport, line 240)
DrawnWorld(x, visible) == << ScreenToWorld(x, ViewportLeft(visible)), 0 >>

\* lines 114-123: the closest planet from index i on (0-based), best so far
\* `best` at distance bestDist (-1: none yet, closestDist at its maximum)
RECURSIVE ClosestFrom(_, _, _, _, _)
ClosestFrom(ps, w, i, best, bestDist) ==
    IF i >= Len(ps) THEN best
    ELSE LET dist == Length(VSub(w, ps[i + 1].p))
         IN  IF bestDist < 0 \/ dist < bestDist
                THEN ClosestFrom(ps, w, i + 1, i, dist)
                ELSE ClosestFrom(ps, w, i + 1, best, bestDist)

Closest(ps, w) == ClosestFrom(ps, w, 0, -1, -1)

\* lines 126-138: toggle follow mode
ToggleFollow(followed, closestIndex) ==
    IF closestIndex < 0 THEN followed
    ELSE IF followed = closestIndex THEN -1
    ELSE closestIndex

\* lines 87-147 at the time in.now, with the button state and the cursor
\* column polled: the statics and the follow target afterwards
MouseBlock(in, guiCapturesMouse, mouseButtonPressed, x, ps) ==
    IF guiCapturesMouse THEN in
    ELSE LET justPressed == mouseButtonPressed /\ ~in.mouseButtonWasPressed
             double == justPressed /\ in.now - in.lastClickTime < doubleClickDelay
         IN  [ in EXCEPT
                 !.followedPlanetIndex =
                     IF double THEN ToggleFollow(@, Closest(ps, HandlerWorld(x))) ELSE @,
                 !.lastClickTime =
                     IF double THEN 0 ELSE IF justPressed THEN in.now ELSE @,
                 !.mouseButtonWasPressed = mouseButtonPressed ]

\* what the user did at a poll at the time t: a press is the button down, in
\* the pane (not captured by the GUI), after it was up at the previous poll;
\* it is the second press of a double-click if less than doubleClickDelay
\* after a press that was not itself the second of one
UserClick(h, t, guiCapturesMouse, mouseButtonPressed) ==
    IF guiCapturesMouse \/ ~mouseButtonPressed \/ h.mouseWas THEN "none"
    ELSE IF h.pressAt >= 0 /\ t - h.pressAt < doubleClickDelay THEN "double"
    ELSE "single"

InitMouse ==
    /\ variant = "main"
    /\ pc = "input"
    /\ frame = 0
    /\ deltaTime = 0
    /\ accumulator = 0
    /\ substeps = 0
    /\ isPaused = FALSE
    /\ restartTriggered = FALSE
    /\ timeScale = 1
    /\ spaceKeyPressed = FALSE
    /\ simDt = ProgramTimeStep
    /\ baseSimDt = simDt
    /\ G = DefaultG
    /\ softening = DefaultSoftening
    /\ simG = DefaultG
    /\ simSoftening = DefaultSoftening
    /\ policy = "none"
    /\ planets = init
    /\ bodies = Registered(planets)
    /\ fi = 0
    /\ fj = 0
    /\ toRemove = { }
    /\ \E t \in StartTimes : input = [ NoInput EXCEPT !.now = t ]
    /\ hist = NoHist

\* the variables the input block leaves alone
simulationVars ==
    << variant, pc, frame, deltaTime, accumulator, substeps, restartTriggered,
       timeScale, simDt, baseSimDt, G, softening, simG, simSoftening, policy,
       planets, bodies, fi, fj, toRemove >>

\* one iteration of the loop: the time is read and the mouse block runs
PollMouse ==
    /\ pc = "input"
    /\ hist.polls < MaxPolls
    /\ \E dT \in ClickFrameTimes, guiCapturesMouse \in BOOLEAN,
          mouseButtonPressed \in BOOLEAN, x \in ClickXs :
          LET in   == [ input EXCEPT !.now = @ + dT ]
              kind == UserClick(hist, in.now, guiCapturesMouse, mouseButtonPressed)
          IN  /\ input' = MouseBlock(in, guiCapturesMouse, mouseButtonPressed, x, planets)
              /\ hist' = [ hist EXCEPT
                    !.polls = @ + 1,
                    !.mouseWas = mouseButtonPressed,
                    !.pressAt = IF kind = "double" THEN -1
                                ELSE IF kind = "single" THEN in.now ELSE @,
                    !.click = [ kind |-> kind,
                                nearest |-> Closest(planets, DrawnWorld(x, input.visible)),
                                before |-> input.followedPlanetIndex,
                                after |-> input'.followedPlanetIndex ] ]
    /\ UNCHANGED << isPaused, spaceKeyPressed >>
    /\ UNCHANGED simulationVars

\* GUI::toggleVisibility, between two polls of the mouse
ToggleVisibility ==
    /\ pc = "input"
    /\ hist.polls < MaxPolls
    /\ input' = [ input EXCEPT !.visible = ~@ ]
    /\ UNCHANGED << isPaused, spaceKeyPressed, hist >>
    /\ UNCHANGED simulationVars

NextMouse ==
    \/ PollMouse
    \/ ToggleVisibility

SpecMouse == InitMouse /\ [][NextMouse]_vars

\* C26: a double-click in the pane makes the camera follow the planet nearest
\* to the click, or the centre of mass (-1) if that planet is followed
\* already, so every double-click changes the follow target once; a poll
\* without a double-click (a single click, no click) leaves the target as it is.
C26_DoubleClickFollows ==
    LET c == hist.click
    IN  /\ (c.kind = "double" =>
              c.after = IF c.before = c.nearest THEN -1 ELSE c.nearest)
        /\ (c.kind # "double" => c.after = c.before)

\* a double-click in the pane, with the panel visible and long after the
\* start of the program, has left the follow target as it was
C26_DoubleClickLost ==
    /\ hist.click.kind = "double"
    /\ hist.click.after = hist.click.before
    /\ input.visible
    /\ input.now > 2 * doubleClickDelay

-----------------------------------------------------------------------------
(* The key block of main(), lines 149-168: H toggles the panel, SPACE the   *)
(* pause.                                                                    *)

\* lines 151-157: the H key
HKeyBlock(in, hDown) ==
    IF hDown /\ ~in.hKeyPressed
       THEN [ in EXCEPT !.visible = ~@, !.hKeyPressed = TRUE ]
    ELSE IF ~hDown THEN [ in EXCEPT !.hKeyPressed = FALSE ]
    ELSE in

\* lines 159-168: the SPACE key; k = [isPaused, spaceKeyPressed]
SpaceKeyBlock(k, guiCapturesKeyboard, spaceDown) ==
    IF guiCapturesKeyboard THEN k
    ELSE IF spaceDown /\ ~k.spaceKeyPressed
       THEN [ isPaused |-> ~k.isPaused, spaceKeyPressed |-> TRUE ]
    ELSE IF ~spaceDown THEN [ k EXCEPT !.spaceKeyPressed = FALSE ]
    ELSE k

\* one iteration of the loop: the key block runs on the keys as polled
PollKeys ==
    /\ pc = "input"
    /\ hist.polls < MaxPolls
    /\ \E hDown \in BOOLEAN, spaceDown \in BOOLEAN, guiCapturesKeyboard \in BOOLEAN :
          LET k == SpaceKeyBlock([ isPaused |-> isPaused,
                                   spaceKeyPressed |-> spaceKeyPressed ],
                                 guiCapturesKeyboard, spaceDown)
          IN  /\ input' = HKeyBlock(input, hDown)
              /\ isPaused' = k.isPaused
              /\ spaceKeyPressed' = k.spaceKeyPressed
              /\ hist' = [ hist EXCEPT
                    !.polls = @ + 1,
                    !.hWas = hDown,
                    !.spaceWas = spaceDown,
                    !.key = [ hPress |-> hDown /\ ~hist.hWas,
                              spacePress |-> spaceDown /\ ~hist.spaceWas,
                              captured |-> guiCapturesKeyboard,
                              visibleBefore |-> input.visible,
                              visibleAfter |-> input'.visible,
                              pausedBefore |-> isPaused,
                              pausedAfter |-> isPaused' ] ]
    /\ UNCHANGED simulationVars

NextKeys == PollKeys

SpecKeys == InitMouse /\ [][NextKeys]_vars

\* C27: at every poll the panel visibility is toggled if the H key was
\* pressed (down after it was up), and left alone if not, whether or not the
\* GUI captures the keyboard; the pause is toggled if the SPACE key was
\* pressed while the GUI does not capture the keyboard, and left alone if not.
C27_KeysEdgeTriggered ==
    LET k == hist.key
    IN  /\ k.visibleAfter = (IF k.hPress THEN ~k.visibleBefore ELSE k.visibleBefore)
        /\ k.pausedAfter = (IF k.spacePress /\ ~k.captured THEN ~k.pausedBefore
                            ELSE k.pausedBefore)

\* the SPACE key was pressed while the GUI did not capture the keyboard and
\* the pause was not toggled
C27_SpacePressLost ==
    /\ hist.key.spacePress
    /\ ~hist.key.captured
    /\ hist.key.pausedAfter = hist.key.pausedBefore

\* the H key alone: every press toggles the panel once, no poll without a
\* press toggles it, with the keyboard captured or not
C27_HKeyEdgeTriggered ==
    hist.key.visibleAfter = (IF hist.key.hPress THEN ~hist.key.visibleBefore
                             ELSE hist.key.visibleBefore)

-----------------------------------------------------------------------------
(* The variants of Planet::recordPosition in the repository: the earlier    *)
(* Planet of part_004, which has a position, a velocity and a trail only    *)
(* and records from its own Planet::integrate, and the Planet of part_003   *)
(* and of Planet.hpp, whose recordPosition is called by the loop of         *)
(* PhysicsEngine::integrate.                                                *)

\* Planet(initialV, initialP) of part_004
EarlyPlanet(initialV, initialP) ==
    [ p |-> initialP, v |-> initialV, trail |-> << >> ]

\* Planet::recordPosition of part_004:
\*   trail.size() > maxTrailLength ? trail.pop_front() : trail.push_back(p);
recordPositionEarly(b) ==
    IF Len(b.trail) > maxTrailLength THEN [ b EXCEPT !.trail = Tail(@) ]
    ELSE [ b EXCEPT !.trail = Append(@, b.p) ]

\* Planet::integrate of part_004: p += v * dt; recordPosition();
integrateEarly(b, dt) ==
    recordPositionEarly([ b EXCEPT !.p = VAdd(b.p, VTimesDt(b.v, dt)) ])

\* the sources that define Planet::recordPosition
TrailVariants == { "part_004", "part_003", "Planet.hpp" }

\* the velocities of the planet that records
VariantVelocities == { << 8, 0 >>, << 0, -8 >> }

\* one move and one recordPosition of a planet of the given source
integrateOf(src, b, dt) ==
    IF src = "part_004" THEN integrateEarly(b, dt) ELSE integrateOne(b, dt)

InitVariants ==
    /\ variant \in TrailVariants
    /\ pc = "trail"
    /\ frame = 0
    /\ deltaTime = 0
    /\ accumulator = 0
    /\ substeps = 0
    /\ isPaused = FALSE
    /\ restartTriggered = FALSE
    /\ timeScale = 1
    /\ spaceKeyPressed = FALSE
    /\ simDt = ProgramTimeStep
    /\ baseSimDt = simDt
    /\ G = DefaultG
    /\ softening = DefaultSoftening
    /\ simG = G
    /\ simSoftening = softening
    /\ policy = "none"
    /\ \E w \in VariantVelocities :
          planets = << IF variant = "part_004" THEN EarlyPlanet(w, Zero2)
                       ELSE NewPlanet(w, Zero2) >>
    /\ bodies = Registered(planets)
    /\ fi = 0
    /\ fj = 0
    /\ toRemove = { }
    /\ input = NoInput
    /\ hist = [ NoHist EXCEPT !.samples = << << >> >> ]

\* one call that moves the planet and records its position
VariantRecord ==
    /\ pc = "trail"
    /\ Len(hist.samples[1]) < MaxRecordings
    /\ planets' = << integrateOf(variant, planets[1], simDt) >>
    /\ hist' = [ hist EXCEPT
                   !.steps = @ + 1,
                   !.pre = planets,
                   !.samples = << Append(hist.samples[1], planets'[1].p) >> ]
    /\ UNCHANGED << pc, bodies, fi, fj >>
    /\ UNCHANGED driverVars
    /\ UNCHANGED toRemove

\* Planet::clearTrail
VariantClear ==
    /\ pc = "trail"
    /\ hist.clears < MaxClears
    /\ Len(hist.samples[1]) \in ClearAfter
    /\ planets' = << clearTrail(planets[1]) >>
    /\ hist' = [ hist EXCEPT
                   !.clears = @ + 1,
                   !.pre = planets,
                   !.samples = << << >> >> ]
    /\ UNCHANGED << pc, bodies, fi, fj >>
    /\ UNCHANGED driverVars
    /\ UNCHANGED toRemove

NextVariants ==
    \/ VariantRecord
    \/ VariantClear

SpecVariants == InitVariants /\ [][NextVariants]_vars

-----------------------------------------------------------------------------
(* Properties of the variants of recordPosition (specification              *)
(* SpecVariants).                                                           *)

\* C30: in every variant of Planet::recordPosition, the earlier one of
\* part_004 used by Planet::integrate included, each call appends the
\* position of the planet as the newest trail entry and removes the oldest
\* entry exactly when the trail was already at capacity (1000 entries); no
\* call drops the sample and the trail never holds more than 1000 entries.
C30_EveryVariantAppends ==
    /\ [](Len(planets[1].trail) <= maxTrailLength)
    /\ [][ hist'.steps = hist.steps + 1 =>
             LET tr == planets[1].trail
             IN  planets'[1].trail =
                   Append(IF Len(tr) = maxTrailLength THEN Tail(tr) ELSE tr,
                          planets'[1].p) ]_vars

\* the earlier variant has let the trail grow to 1001 entries, and the call
\* after that has removed the oldest entry without recording the position
C30_EarlySampleDropped ==
    /\ variant = "part_004"
    /\ hist.steps = maxTrailLength + 2
    /\ hist.clears = 0
    /\ Len(hist.pre[1].trail) = maxTrailLength + 1
    /\ planets[1].trail = Tail(hist.pre[1].trail)
    /\ planets[1].trail[Len(planets[1].trail)] # planets[1].p

\* in the variant of part_003 and of Planet.hpp every call appends the
\* position and the trail holds at most 1000 entries
C30_LaterVariantsAppend ==
    variant # "part_004" =>
       /\ Len(planets[1].trail) <= maxTrailLength
       /\ (hist.steps > 0 /\ hist.samples[1] # << >> =>
             planets[1].trail[Len(planets[1].trail)] = planets[1].p)

====
